---- MODULE Spec2Model ----
(***************************************************************************)
(* MockPilot: the schema walkers of the sender (src/sender.py) and the     *)
(* validation model builder of the receiver (src/receiver.py).             *)
(*                                                                         *)
(* A schema fragment is a Python dict; it is modelled as a TLA+ record     *)
(* that holds exactly the keys the dict holds, so that `'k' in d` is       *)
(* "k" \in DOMAIN d and d.get(k, default) is Get(d, k, default).  The key  *)
(* '$ref' is written ref; its value, the pointer '#/components/schemas/N', *)
(* is the sequence of its '/'-separated segments.  An ordered mapping      *)
(* (properties) is a sequence of <<name, fragment>> pairs.  A dotted field *)
(* path is the sequence of its segments.                                   *)
(*                                                                         *)
(* Each recursive walker is an explicit stack machine: one frame per       *)
(* Python call, one action per block of the function body.                 *)
(***************************************************************************)
EXTENDS Integers, Sequences, FiniteSets, TLC

VARIABLES
    schemas,   \* the catalog, name -> fragment: Sender.schemas, and the
               \* schema_catalog handed to DocCompliler.parse_endpoint_body
    xroot,     \* extract_schema_fields: the fragment of the outermost call
    xstack,    \* extract_schema_fields: the call stack
    xpc,       \* extract_schema_fields: "idle", "run", "done" or "raised"
    xresult,   \* extract_schema_fields: the list the outermost call returned
    groot,     \* generate_field_data: the fragment of the outermost call
    gstack,    \* generate_field_data: the call stack
    gpc,       \* generate_field_data: "idle", "run", "done" or "raised"
    gresult,   \* generate_field_data: the value the outermost call returned
    gerr,      \* generate_field_data: the exception that ended the walk
    tbase,     \* parse_endpoint_body: base_schema, the top-level fragment
    tstack,    \* parse_schema: the call stack
    tpc,       \* parse_endpoint_body: "idle", "run", "rekey", "done", "raised"
    tables,    \* parse_endpoint_body: the mapping tables, name -> rows
    endpoint_config,  \* Receiver: the endpoint being initialised
    rpc,       \* Receiver: "idle", "init", "serving", "skipped" or "raised"
    rmodel,    \* Receiver: the model of the route's handler
    rerr,      \* Receiver: the exception that ended the initialisation
    rpayload,  \* Receiver: the body of the last request
    rverdict,  \* Receiver: the answer to the last request
    disk,      \* Sender: the file at config_path
    config,    \* Sender.config: the document last loaded
    endpoints, \* Sender.endpoints
    sreply,    \* Sender: the answer to the last request but send_request
    spending,  \* Sender: the send_request_handler call that awaits its body
    ssent      \* Sender: what the last send_request_handler call did

xvars == <<xroot, xstack, xpc, xresult>>
gvars == <<groot, gstack, gpc, gresult, gerr>>
tvars == <<tbase, tstack, tpc, tables>>
rvars == <<endpoint_config, rpc, rmodel, rerr, rpayload, rverdict>>
svars == <<disk, config, endpoints, sreply, spending, ssent>>
vars == <<schemas, xvars, gvars, tvars, rvars, svars>>

(***************************************************************************)
(* Bounds of the model.                                                    *)
(***************************************************************************)
\* The interpreter's recursion limit (sys.getrecursionlimit(), 1000 by
\* default), scaled down: the number of frames a walk may stack before the
\* next call raises RecursionError.
RecursionLimit == 9

(***************************************************************************)
(* Python dict and list helpers.                                           *)
(***************************************************************************)
None == "None"
EmptyDict == <<>>

\* d.get(k, default)
Get(d, k, default) == IF k \in DOMAIN d THEN d[k] ELSE default

\* value in list
InList(v, list) == \E k \in DOMAIN list : list[k] = v

\* {k: d[k] for k in keys if k in d}
Restrict(d, keys) == [k \in (DOMAIN d) \cap keys |-> d[k]]

\* ref_path.split("/")[-1]
RefName(ref_path) == ref_path[Len(ref_path)]

Front(s) == SubSeq(s, 1, Len(s) - 1)

(***************************************************************************)
(* Schema fragments.                                                       *)
(***************************************************************************)
Ref(n) == [ref |-> <<"#", "components", "schemas", n>>]
StrT == [type |-> "string"]
Obj(props) == [type |-> "object", properties |-> props]
ArrOf(items) == [type |-> "array", items |-> items]

IsRef(f) == "ref" \in DOMAIN f

(***************************************************************************)
(* Sender.extract_schema_fields (src/sender.py 311-426).                   *)
(***************************************************************************)
\* The keys copied verbatim into a simple field's row (393-410).
ConstraintKeys == {"format", "minimum", "maximum", "minLength", "maxLength",
                   "pattern", "example", "enum", "nullable"}

\* f"{parent_name}.{prop_name}" if parent_name else prop_name
FieldPath(parent_name, prop_name) ==
    IF parent_name # <<>> THEN parent_name \o <<prop_name>> ELSE <<prop_name>>

\* parent_name if parent_name else None
ParentOf(parent_name) == IF parent_name # <<>> THEN parent_name ELSE <<None>>

\* The row of an array property (363-370).
ArrayRow(field_path, parent_name, prop_schema, is_required) ==
    [name        |-> field_path,
     type        |-> "array",
     required    |-> is_required,
     description |-> Get(prop_schema, "description", ""),
     parent      |-> ParentOf(parent_name),
     items_type  |-> Get(Get(prop_schema, "items", EmptyDict), "type", "unknown")]

\* The row of a simple property (384-412).
SimpleRow(field_path, parent_name, prop_schema, is_required) ==
    Restrict(prop_schema, ConstraintKeys) @@
    [name        |-> field_path,
     type        |-> Get(prop_schema, "type", "string"),
     required    |-> is_required,
     description |-> Get(prop_schema, "description", ""),
     parent      |-> ParentOf(parent_name)]

\* A fresh call extract_schema_fields(cfg, parent, required, visited):
\* fields = [] (321), about to test '$ref' (324).
XFrame(cfg, parent_name, required_fields, visited_refs) ==
    [cfg             |-> cfg,
     parent_name     |-> parent_name,
     required_fields |-> required_fields,
     visited_refs    |-> visited_refs,
     fields          |-> <<>>,
     pc              |-> "entry",
     i               |-> 1]

XTop == xstack[Len(xstack)]

\* The caller, left at `caller`, calls extract_schema_fields: a frame more,
\* or RecursionError when the stack is full.
XCall(caller, callee) ==
    IF Len(xstack) >= RecursionLimit
    THEN /\ xpc' = "raised"
         /\ xstack' = <<>>
         /\ UNCHANGED xresult
    ELSE /\ xstack' = Append([xstack EXCEPT ![Len(xstack)] = caller], callee)
         /\ UNCHANGED <<xpc, xresult>>

\* Line 329, the cycle guard: schema_name in visited_refs
AlreadyVisited_Never(schema_name, visited_refs) == FALSE
AlreadyVisited(schema_name, visited_refs) == schema_name \in visited_refs

\* items_schema.get('type') == 'object' or '$ref' in items_schema (374, 417)
ItemsNeedWalk(items_schema) ==
    Get(items_schema, "type", None) = "object" \/ IsRef(items_schema)

\* Lines 323-340: the $ref block.
XEntry ==
    /\ xpc = "run"
    /\ XTop.pc = "entry"
    /\ LET f == XTop
           schema_name == RefName(f.cfg.ref)
           seen == f.visited_refs \cup {schema_name}
       IN  IF ~IsRef(f.cfg)
           THEN /\ xstack' = [xstack EXCEPT ![Len(xstack)].pc = "type"]
                /\ UNCHANGED <<xpc, xresult>>
           ELSE IF AlreadyVisited(schema_name, f.visited_refs)
           THEN \* 329-330: return fields
                /\ xstack' = [xstack EXCEPT ![Len(xstack)].pc = "ret"]
                /\ UNCHANGED <<xpc, xresult>>
           ELSE IF schema_name \in DOMAIN schemas
           THEN \* 335-340: return self.extract_schema_fields(...), the
                \* callee working on the very set the caller holds
                XCall([f EXCEPT !.visited_refs = seen, !.pc = "tail"],
                      XFrame(schemas[schema_name], f.parent_name,
                             f.required_fields, seen))
           ELSE \* 334 is false: execution falls through to line 342
                /\ xstack' = [xstack EXCEPT ![Len(xstack)] =
                                 [f EXCEPT !.visited_refs = seen, !.pc = "type"]]
                /\ UNCHANGED <<xpc, xresult>>
    /\ UNCHANGED <<schemas, xroot, gvars, tvars, rvars, svars>>

\* Lines 342-346 and 414-424: the dispatch on schema_type.
XType ==
    /\ xpc = "run"
    /\ XTop.pc = "type"
    /\ LET f == XTop
           schema_type == Get(f.cfg, "type", "object")
           items_schema == Get(f.cfg, "items", EmptyDict)
       IN  IF schema_type = "object"
           THEN /\ xstack' = [xstack EXCEPT ![Len(xstack)].pc = "props"]
                /\ UNCHANGED <<xpc, xresult>>
           ELSE IF schema_type = "array" /\ ItemsNeedWalk(items_schema)
           THEN XCall([f EXCEPT !.pc = "arrwait"],
                      XFrame(items_schema,
                             IF f.parent_name # <<>>
                             THEN f.parent_name \o <<"[*]">> ELSE <<"[*]">>,
                             Get(items_schema, "required", <<>>),
                             f.visited_refs))
           ELSE /\ xstack' = [xstack EXCEPT ![Len(xstack)].pc = "ret"]
                /\ UNCHANGED <<xpc, xresult>>
    /\ UNCHANGED <<schemas, xroot, gvars, tvars, rvars, svars>>

\* Lines 348-412: one turn of the loop over the properties.
XProp ==
    /\ xpc = "run"
    /\ XTop.pc = "props"
    /\ XTop.i <= Len(Get(XTop.cfg, "properties", <<>>))
    /\ LET f == XTop
           prop_name == f.cfg.properties[f.i][1]
           prop_schema == f.cfg.properties[f.i][2]
           field_path == FieldPath(f.parent_name, prop_name)
           is_required == InList(prop_name, Get(f.cfg, "required", <<>>))
           items_schema == Get(prop_schema, "items", EmptyDict)
           with_row == [f EXCEPT !.fields = Append(f.fields,
                           ArrayRow(field_path, f.parent_name, prop_schema,
                                    is_required))]
       IN  IF Get(prop_schema, "type", None) = "object"
           THEN XCall([f EXCEPT !.pc = "propwait"],
                      XFrame(prop_schema, field_path,
                             Get(prop_schema, "required", <<>>),
                             f.visited_refs))
           ELSE IF Get(prop_schema, "type", None) = "array"
           THEN IF ItemsNeedWalk(items_schema)
                THEN XCall([with_row EXCEPT !.pc = "propwait"],
                           XFrame(items_schema, field_path \o <<"[*]">>,
                                  Get(items_schema, "required", <<>>),
                                  f.visited_refs))
                ELSE /\ xstack' = [xstack EXCEPT ![Len(xstack)] =
                                      [with_row EXCEPT !.i = f.i + 1]]
                     /\ UNCHANGED <<xpc, xresult>>
           ELSE /\ xstack' = [xstack EXCEPT ![Len(xstack)] =
                      [f EXCEPT !.fields = Append(f.fields,
                                    SimpleRow(field_path, f.parent_name,
                                              prop_schema, is_required)),
                                !.i = f.i + 1]]
                /\ UNCHANGED <<xpc, xresult>>
    /\ UNCHANGED <<schemas, xroot, gvars, tvars, rvars, svars>>

\* The loop of line 348 is exhausted: line 426.
XLoopEnd ==
    /\ xpc = "run"
    /\ XTop.pc = "props"
    /\ XTop.i > Len(Get(XTop.cfg, "properties", <<>>))
    /\ xstack' = [xstack EXCEPT ![Len(xstack)].pc = "ret"]
    /\ UNCHANGED <<schemas, xroot, xpc, xresult, gvars, tvars, rvars, svars>>

\* return fields: the caller extends its own list with the callee's (360,
\* 381, 424) or, at line 335, returns it as it is.
XReturn ==
    /\ xpc = "run"
    /\ XTop.pc = "ret"
    /\ IF Len(xstack) = 1
       THEN /\ xresult' = XTop.fields
            /\ xpc' = "done"
            /\ xstack' = <<>>
       ELSE LET caller == xstack[Len(xstack) - 1]
                got == caller.fields \o XTop.fields
                back == IF caller.pc = "propwait"
                        THEN [caller EXCEPT !.fields = got, !.pc = "props",
                                            !.i = caller.i + 1]
                        ELSE [caller EXCEPT !.fields = got, !.pc = "ret"]
            IN  /\ xstack' = [Front(xstack) EXCEPT ![Len(xstack) - 1] = back]
                /\ UNCHANGED <<xpc, xresult>>
    /\ UNCHANGED <<schemas, xroot, gvars, tvars, rvars, svars>>

(***************************************************************************)
(* Python values.  A string is the sequence of its characters; a float is  *)
(* a whole number of millionths (the resolution of the 1e-6 of lines 196   *)
(* and 198), and so are the bounds and the enum members of a number node.  *)
(***************************************************************************)
Micro == 1000000

IntV(k) == [t |-> "int", n |-> k, s |-> <<>>]
FloatV(u) == [t |-> "float", n |-> u, s |-> <<>>]
BoolV(b) == [t |-> "bool", n |-> IF b THEN 1 ELSE 0, s |-> <<>>]
StrV(chars) == [t |-> "str", n |-> 0, s |-> chars]
ListV(items) == [t |-> "list", items |-> items]
DictV(items) == [t |-> "dict", items |-> items]

DigitChar == <<"0", "1", "2", "3", "4", "5", "6", "7", "8", "9">>

RECURSIVE Digits(_)
Digits(k) ==
    IF k < 10 THEN <<DigitChar[k + 1]>>
    ELSE Digits(k \div 10) \o <<DigitChar[(k % 10) + 1]>>

\* str(k) of an int
IntStr(k) == IF k < 0 THEN <<"-">> \o Digits(-k) ELSE Digits(k)

RECURSIVE StripZeros(_)
StripZeros(ds) ==
    IF Len(ds) > 1 /\ ds[Len(ds)] = "0" THEN StripZeros(Front(ds)) ELSE ds

\* str(x) of a float of at least 1e-4 in magnitude (or zero): the whole
\* part, a point, and the decimals without their trailing zeros.
FloatStr(u) ==
    LET a == IF u < 0 THEN -u ELSE u
        frac == Digits(Micro + (a % Micro))
    IN  (IF u < 0 THEN <<"-">> ELSE <<>>) \o Digits(a \div Micro) \o <<".">>
            \o StripZeros(SubSeq(frac, 2, Len(frac)))

RECURSIVE Repr(_)
\* repr(v)
Repr(v) ==
    CASE v.t = "int" -> IntStr(v.n)
      [] v.t = "float" -> FloatStr(v.n)
      [] v.t = "bool" -> IF v.n = 1 THEN <<"T", "r", "u", "e">>
                                    ELSE <<"F", "a", "l", "s", "e">>
      [] v.t = "str" -> <<"'">> \o v.s \o <<"'">>
      [] v.t = "list" ->
            LET RECURSIVE Join(_)
                Join(k) == IF k > Len(v.items) THEN <<>>
                           ELSE (IF k > 1 THEN <<",", " ">> ELSE <<>>)
                                \o Repr(v.items[k]) \o Join(k + 1)
            IN  <<"[">> \o Join(1) \o <<"]">>
      [] v.t = "dict" ->
            LET RECURSIVE Join(_)
                Join(k) == IF k > Len(v.items) THEN <<>>
                           ELSE (IF k > 1 THEN <<",", " ">> ELSE <<>>)
                                \o <<"'", v.items[k][1], "'", ":", " ">>
                                \o Repr(v.items[k][2]) \o Join(k + 1)
            IN  <<"{">> \o Join(1) \o <<"}">>

\* str(v)
Str(v) == IF v.t = "str" THEN v.s ELSE Repr(v)

\* The number a numeric value stands for, in millionths (True is 1).
Num(v) == IF v.t = "float" THEN v.n ELSE v.n * Micro

IsNumeric(v) == v.t \in {"int", "float", "bool"}

RECURSIVE ValEq(_, _)
\* a == b
ValEq(a, b) ==
    IF IsNumeric(a) /\ IsNumeric(b) THEN Num(a) = Num(b)
    ELSE IF a.t # b.t THEN FALSE
    ELSE IF a.t = "str" THEN a.s = b.s
    ELSE IF a.t = "list"
    THEN /\ Len(a.items) = Len(b.items)
         /\ \A k \in DOMAIN a.items : ValEq(a.items[k], b.items[k])
    ELSE /\ Len(a.items) = Len(b.items)
         /\ \A k \in DOMAIN a.items : \E j \in DOMAIN b.items :
                /\ a.items[k][1] = b.items[j][1]
                /\ ValEq(a.items[k][2], b.items[j][2])

(***************************************************************************)
(* DataGenerator (src/sender.py 20-212).  What a call may do is a set of   *)
(* outcomes: a value returned, or an exception raised.                     *)
(***************************************************************************)
Returns(v) == [exc |-> None, val |-> v]
Raises(e) == [exc |-> e, val |-> IntV(0)]

\* The characters random.choices draws from, string.ascii_letters +
\* string.digits, cut down to a letter and a digit.
Alnum == {"a", "1"}

\* ''.join(random.choices(string.ascii_letters + string.digits, k=length))
RandomAlnum(length) == [1..length -> Alnum]

\* random.randint(a, b): ValueError on an empty range
RandInt(a, b) == a..b

\* The formats generate_string answers with a Faker or uuid call (35-106).
FakerFormats ==
    {"email", "uuid", "date", "date-time", "hostname", "ipv4", "ipv6", "uri",
     "url", "password", "phone", "phone-number", "uuid1", "uuid3", "uuid5",
     "credit-card", "country-code", "currency", "timezone", "postal-code",
     "zip", "slug", "username", "ipv4-cidr", "ipv6-cidr", "mac-address",
     "iban", "bic", "swift", "hex-color", "rgb-color", "address",
     "street-address", "city", "state", "country", "company-name"}
\* The formats whose branch uses base64 or os, which sender.py never imports
\* (53-56).
UnimportedFormats == {"byte", "binary"}

\* A pattern is the regular expression's text, whether rstr.xeger accepts
\* it, and the strings xeger may return for it.
NoPattern == [src |-> "", ok |-> TRUE, matches |-> {}]

\* generate_string(length, pattern, format_), lines 22-108.
GenerateString(length, pattern, format_) ==
    LET padded(result) ==
            IF length # 0 /\ Len(result) > length
            THEN {SubSeq(result, 1, length)}
            ELSE IF length # 0 /\ Len(result) < length
            THEN {result \o pad : pad \in RandomAlnum(length - Len(result))}
            ELSE {result}
        by_format ==
            IF format_ \in UnimportedFormats THEN {Raises("NameError")}
            ELSE IF format_ \in FakerFormats
            THEN {Returns(StrV(<<"<", format_, ">">>))}
            ELSE {Returns(StrV(str)) : str \in RandomAlnum(length)}
    IN  IF pattern.src # "" /\ pattern.ok
        THEN {Returns(StrV(str)) :
                  str \in UNION {padded(m) : m \in pattern.matches}}
        ELSE by_format

\* generate_integer(min_val, max_val, multiple_of), lines 112-116; a
\* multiple_of of 0 stands for None as well, both being falsy at line 114.
Quantize(value, multiple_of) ==
    IF multiple_of # 0 THEN value - (value % multiple_of) ELSE value

GenerateInteger(min_val, max_val, multiple_of) ==
    IF min_val > max_val THEN {Raises("ValueError")}
    ELSE {Returns(IntV(Quantize(value, multiple_of))) :
              value \in RandInt(min_val, max_val)}

\* round(value, 2): to the nearest hundredth; at a tie the binary
\* representation of the float decides, so either neighbour may come out.
Round2(u) ==
    LET r == u % (Micro \div 100)
        down == u - r
        up == down + (Micro \div 100)
    IN  IF r * 2 < (Micro \div 100) THEN {down}
        ELSE IF r * 2 > (Micro \div 100) THEN {up}
        ELSE {down, up}

\* random.uniform(a, b), which takes either order of its arguments: the
\* two ends and the middle stand for the interval.
Uniform(a, b) == {a, b, (a + b) \div 2}

\* generate_float(min_val, max_val, multiple_of), lines 119-123.
GenerateFloat(min_val, max_val, multiple_of) ==
    {Returns(FloatV(r)) :
        r \in UNION {Round2(Quantize(value, multiple_of)) :
                         value \in Uniform(min_val, max_val)}}

\* Lines 183-188: the integer bounds, each shifted inward by one when its
\* exclusive flag is True.
IntegerMin_ShiftOut(cfg) ==
    Get(cfg, "minimum", 1)
        - (IF Get(cfg, "exclusiveMinimum", FALSE) = TRUE THEN 1 ELSE 0)
IntegerMin(cfg) ==
    Get(cfg, "minimum", 1)
        + (IF Get(cfg, "exclusiveMinimum", FALSE) = TRUE THEN 1 ELSE 0)
IntegerMax(cfg) ==
    Get(cfg, "maximum", 100)
        - (IF Get(cfg, "exclusiveMaximum", FALSE) = TRUE THEN 1 ELSE 0)

\* Lines 174-203 and 211-212 of generate_field_data: a node that is neither
\* an array nor an object.
GenerateLeaf(cfg) ==
    LET data_type == Get(cfg, "type", "string")
    IN  IF data_type = "string"
        THEN LET min_len == Get(cfg, "minLength", 1)
                 max_len == Get(cfg, "maxLength",
                                IF min_len > 10 THEN min_len ELSE 10)
             IN  IF min_len > max_len THEN {Raises("ValueError")}
                 ELSE UNION {GenerateString(length,
                                            Get(cfg, "pattern", NoPattern),
                                            Get(cfg, "format", None)) :
                                 length \in RandInt(min_len, max_len)}
        ELSE IF data_type = "integer"
        THEN GenerateInteger(IntegerMin(cfg), IntegerMax(cfg),
                             Get(cfg, "multipleOf", 0))
        ELSE IF data_type \in {"number", "float"}
        THEN \* 193-200; the 1e-6 of lines 196 and 198 is one millionth
             GenerateFloat(
                 Get(cfg, "minimum", Micro)
                   + (IF Get(cfg, "exclusiveMinimum", FALSE) = TRUE THEN 1 ELSE 0),
                 Get(cfg, "maximum", 100 * Micro)
                   - (IF Get(cfg, "exclusiveMaximum", FALSE) = TRUE THEN 1 ELSE 0),
                 Get(cfg, "multipleOf", 0))
        ELSE IF data_type = "boolean"
        THEN {Returns(BoolV(TRUE)), Returns(BoolV(FALSE))}
        ELSE \* 212: generate_string() with its default length of 10
             GenerateString(10, NoPattern, None)

\* Line 143: list({str(i): i for i in items}.values()) keeps, for every
\* distinct str(), its first place and its last value.
Dedupe(items) ==
    LET idx == [k \in DOMAIN items |-> k]
        first(k) == \A j \in 1..(k - 1) : Str(items[j]) # Str(items[k])
        last(k) == CHOOSE j \in DOMAIN items :
                       /\ Str(items[j]) = Str(items[k])
                       /\ \A m \in DOMAIN items :
                              Str(items[m]) = Str(items[k]) => m <= j
        firsts == SelectSeq(idx, first)
    IN  [k \in DOMAIN firsts |-> items[last(firsts[k])]]

\* Lines 169-170: an enum decides the value, before the type is looked at.
HasEnum_AfterType(cfg) == "enum" \in DOMAIN cfg /\ "type" \notin DOMAIN cfg
HasEnum(cfg) == "enum" \in DOMAIN cfg

\* A fresh call generate_field_data(arg, schemas); cfg is field_config
\* once line 166 has replaced a reference by the schema it names.
GFrame(arg) ==
    [arg  |-> arg,
     cfg  |-> arg,
     pc   |-> "entry",
     size |-> 0,
     acc  |-> <<>>,
     i    |-> 1,
     val  |-> IntV(0)]

GTop == gstack[Len(gstack)]

\* An exception leaves every frame: nothing in DataGenerator catches it.
GRaise(e) ==
    /\ gpc' = "raised"
    /\ gerr' = e
    /\ gstack' = <<>>
    /\ UNCHANGED gresult

GStep(frame) ==
    /\ gstack' = [gstack EXCEPT ![Len(gstack)] = frame]
    /\ UNCHANGED <<gpc, gresult, gerr>>

\* The caller, left at `caller`, calls generate_field_data: a frame more,
\* or RecursionError when the stack is full.
GCall(caller, callee) ==
    IF Len(gstack) >= RecursionLimit
    THEN GRaise("RecursionError")
    ELSE /\ gstack' = Append([gstack EXCEPT ![Len(gstack)] = caller], callee)
         /\ UNCHANGED <<gpc, gresult, gerr>>

\* Lines 164-212 of generate_field_data, with lines 131-136 of
\* generate_array: up to the value of a leaf, or to the loop of a container.
GEntry ==
    /\ gpc = "run"
    /\ GTop.pc = "entry"
    /\ LET f == GTop
           schema_name == RefName(f.arg.ref)
           cfg == IF IsRef(f.arg) THEN schemas[schema_name] ELSE f.arg
           data_type == Get(cfg, "type", "string")
           min_items == Get(cfg, "minItems", 1)
           max_items == Get(cfg, "maxItems",
                            IF min_items > 10 THEN min_items ELSE 10)
       IN  IF IsRef(f.arg) /\ schema_name \notin DOMAIN schemas
           THEN GRaise("KeyError")
           ELSE IF HasEnum(cfg)
           THEN IF Len(cfg.enum) = 0
                THEN GRaise("IndexError")
                ELSE \E k \in DOMAIN cfg.enum :
                         GStep([f EXCEPT !.cfg = cfg, !.val = cfg.enum[k],
                                         !.pc = "ret"])
           ELSE IF data_type = "array"
           THEN IF min_items > max_items
                THEN GRaise("ValueError")
                ELSE \E size \in RandInt(min_items, max_items) :
                         GStep([f EXCEPT !.cfg = cfg, !.size = size,
                                         !.pc = "items"])
           ELSE IF data_type = "object"
           THEN GStep([f EXCEPT !.cfg = cfg, !.pc = "props"])
           ELSE \E o \in GenerateLeaf(cfg) :
                    IF o.exc # None
                    THEN GRaise(o.exc)
                    ELSE GStep([f EXCEPT !.cfg = cfg, !.val = o.val,
                                         !.pc = "ret"])
    /\ UNCHANGED <<schemas, groot, xvars, tvars, rvars, svars>>

\* Lines 138-139: the next item of the array.
GItem ==
    /\ gpc = "run"
    /\ GTop.pc = "items"
    /\ GTop.i <= GTop.size
    /\ GCall([GTop EXCEPT !.pc = "itemwait"],
             GFrame(Get(GTop.cfg, "items", StrT)))
    /\ UNCHANGED <<schemas, groot, xvars, tvars, rvars, svars>>

\* Lines 141-144: the items are generated.
GItemsEnd ==
    /\ gpc = "run"
    /\ GTop.pc = "items"
    /\ GTop.i > GTop.size
    /\ GStep([GTop EXCEPT
                 !.val = ListV(IF Get(GTop.cfg, "uniqueItems", FALSE) = TRUE
                               THEN Dedupe(GTop.acc) ELSE GTop.acc),
                 !.pc = "ret"])
    /\ UNCHANGED <<schemas, groot, xvars, tvars, rvars, svars>>

\* Lines 152-158: the next property of the object.
GProp ==
    /\ gpc = "run"
    /\ GTop.pc = "props"
    /\ GTop.i <= Len(Get(GTop.cfg, "properties", <<>>))
    /\ GCall([GTop EXCEPT !.pc = "propwait"],
             GFrame(GTop.cfg.properties[GTop.i][2]))
    /\ UNCHANGED <<schemas, groot, xvars, tvars, rvars, svars>>

\* Line 160: return obj
GPropsEnd ==
    /\ gpc = "run"
    /\ GTop.pc = "props"
    /\ GTop.i > Len(Get(GTop.cfg, "properties", <<>>))
    /\ GStep([GTop EXCEPT !.val = DictV(GTop.acc), !.pc = "ret"])
    /\ UNCHANGED <<schemas, groot, xvars, tvars, rvars, svars>>

\* A call returns its value: to the list comprehension of line 139, to the
\* assignment of line 158, or to the caller of the outermost call.
GReturn ==
    /\ gpc = "run"
    /\ GTop.pc = "ret"
    /\ IF Len(gstack) = 1
       THEN /\ gresult' = GTop.val
            /\ gpc' = "done"
            /\ gstack' = <<>>
            /\ UNCHANGED gerr
       ELSE LET caller == gstack[Len(gstack) - 1]
                back == IF caller.pc = "itemwait"
                        THEN [caller EXCEPT
                                 !.acc = Append(caller.acc, GTop.val),
                                 !.i = caller.i + 1, !.pc = "items"]
                        ELSE [caller EXCEPT
                                 !.acc = Append(caller.acc,
                                     <<caller.cfg.properties[caller.i][1],
                                       GTop.val>>),
                                 !.i = caller.i + 1, !.pc = "props"]
            IN  /\ gstack' = [Front(gstack) EXCEPT ![Len(gstack) - 1] = back]
                /\ UNCHANGED <<gpc, gresult, gerr>>
    /\ UNCHANGED <<schemas, groot, xvars, tvars, rvars, svars>>

(***************************************************************************)
(* Receiver (src/receiver.py 29-96).  A field descriptor of the flat list  *)
(* is a record with the keys the JSON object holds; the parentProperty of  *)
(* a top-level field is None.  A type is a record: k names the Python      *)
(* type, ge and le are there when Field() was given a bound that is not    *)
(* None, fields holds the fields of a nested model, item the model of a    *)
(* typed list.                                                             *)
(***************************************************************************)
\* Field(ge=field.get("minValue"), le=field.get("maxValue")), 35 and 39
Bounds(field) ==
    (IF "minValue" \in DOMAIN field THEN "ge" :> field.minValue ELSE EmptyDict)
    @@ (IF "maxValue" \in DOMAIN field THEN "le" :> field.maxValue ELSE EmptyDict)

\* parse_type(dataType, field), lines 29-48
ParseType(dataType, field) ==
    IF dataType = "string" THEN Returns([k |-> "string"])
    ELSE IF dataType = "float" THEN Returns([k |-> "float"] @@ Bounds(field))
    ELSE IF dataType = "integer" THEN Returns([k |-> "integer"] @@ Bounds(field))
    ELSE IF dataType = "boolean" THEN Returns([k |-> "boolean"])
    ELSE IF dataType = "array" THEN Returns([k |-> "array"])
    ELSE IF dataType = "object" THEN Returns([k |-> "object"])
    ELSE Raises("Exception")

\* Lines 52-56: children_map.get(parent, []), the fields whose
\* parentProperty is parent, in the order of the list.
ChildrenOf(fields, parent) ==
    SelectSeq(fields, LAMBDA field : field.parentProperty = parent)

\* field_name.capitalize()
Capitalize(name) == "capitalize(" \o name \o ")"

\* model_fields[field_name] = ...: a later field of the same name takes the
\* place of the earlier one.
DictPut(pairs, key, value) ==
    IF \E k \in DOMAIN pairs : pairs[k][1] = key
    THEN [k \in DOMAIN pairs |->
              IF pairs[k][1] = key THEN <<key, value>> ELSE pairs[k]]
    ELSE Append(pairs, <<key, value>>)

\* Line 73: len(child_items) == 1 and child_items[0]["dataType"] == "object"
HasItemModel_FirstChild(child_items) ==
    Len(child_items) >= 1 /\ child_items[1].dataType = "object"
HasItemModel(child_items) ==
    Len(child_items) = 1 /\ child_items[1].dataType = "object"

RECURSIVE BuildModel(_, _, _, _)
\* _build_model(model_name, parent) of _build_nested_model, lines 58-85,
\* called with `depth` frames below it: the model, or the exception.
BuildModel(fields, model_name, parent, depth) ==
    LET children == ChildrenOf(fields, parent)
        \* the type of one field, lines 62-80
        TypeOf(field) ==
            LET parsed == ParseType(field.dataType, field)
                child_items == ChildrenOf(fields, field.name)
            IN  IF "dataType" \notin DOMAIN field
                THEN \* 62: field["dataType"]
                     Raises("KeyError")
                ELSE IF parsed.exc # None THEN parsed
                ELSE IF field.dataType = "object"
                THEN BuildModel(fields, Capitalize(field.name), field.name,
                                depth + 1)
                ELSE IF field.dataType = "array"
                THEN IF HasItemModel(child_items)
                     THEN LET item == BuildModel(fields,
                                          Capitalize(field.name) \o "Item",
                                          child_items[1].name, depth + 1)
                          IN  IF item.exc # None THEN item
                              ELSE Returns([k |-> "list", item |-> item.val])
                     ELSE Returns([k |-> "list"])
                ELSE parsed
        RECURSIVE Loop(_, _)
        \* the loop of line 61 from the i-th child on
        Loop(i, model_fields) ==
            IF i > Len(children)
            THEN Returns([k |-> "model", name |-> model_name,
                          fields |-> model_fields])
            ELSE LET t == TypeOf(children[i])
                 IN  IF t.exc # None THEN t
                     ELSE Loop(i + 1,
                               DictPut(model_fields, children[i].name,
                                       [type |-> t.val,
                                        required |-> Get(children[i],
                                                         "required", FALSE)]))
    IN  IF depth >= RecursionLimit THEN Raises("RecursionError")
        ELSE Loop(1, <<>>)

\* _build_nested_model(name, fields), lines 50-87
BuildNestedModel(name, fields) == BuildModel(fields, name, None, 0)

RECURSIVE Accepts(_, _)
\* The request validation FastAPI runs for a handler whose payload is
\* annotated with the model (lines 89-96): whether value passes as type.
Accepts(type, value) ==
    CASE type.k = "string" -> value.t = "str"
      [] type.k = "boolean" -> value.t = "bool"
      [] type.k = "integer" ->
            /\ value.t = "int"
            /\ "ge" \in DOMAIN type => value.n >= type.ge
            /\ "le" \in DOMAIN type => value.n <= type.le
      [] type.k = "float" ->
            /\ value.t \in {"int", "float"}
            /\ "ge" \in DOMAIN type => Num(value) >= type.ge
            /\ "le" \in DOMAIN type => Num(value) <= type.le
      [] type.k \in {"array", "list"} ->
            /\ value.t = "list"
            /\ "item" \in DOMAIN type =>
                   \A k \in DOMAIN value.items : Accepts(type.item, value.items[k])
      [] type.k = "object" -> value.t = "dict"
      [] type.k = "model" ->
            /\ value.t = "dict"
            /\ \A k \in DOMAIN type.fields :
                   LET field_name == type.fields[k][1]
                       field == type.fields[k][2]
                       given == {j \in DOMAIN value.items :
                                     value.items[j][1] = field_name}
                   IN  IF given = {} THEN ~field.required
                       ELSE \A j \in given :
                                Accepts(field.type, value.items[j][2])

(***************************************************************************)
(* Receiver._initialize_endpoint and the handler of the route (src/        *)
(* receiver.py 89-127).                                                    *)
(***************************************************************************)
\* model = None (116): the route takes no body.
NoModel == [k |-> "none"]

\* Lines 106-127: the model is built and the route is added; without url or
\* method nothing is added.
InitializeEndpoint ==
    /\ rpc = "init"
    /\ LET path == Get(endpoint_config, "url", None)
           method == Get(endpoint_config, "method", None)
           built == BuildNestedModel("RequestModel", endpoint_config.bodyFields)
       IN  IF path = None \/ method = None
           THEN /\ rpc' = "skipped"
                /\ UNCHANGED <<rmodel, rerr>>
           ELSE IF method = "GET"
           THEN /\ rpc' = "serving"
                /\ UNCHANGED <<rmodel, rerr>>
           ELSE IF "bodyFields" \notin DOMAIN endpoint_config
           THEN \* 121: endpoint_config["bodyFields"]
                /\ rpc' = "raised"
                /\ rerr' = "KeyError"
                /\ UNCHANGED rmodel
           ELSE IF built.exc # None
           THEN /\ rpc' = "raised"
                /\ rerr' = built.exc
                /\ UNCHANGED rmodel
           ELSE /\ rpc' = "serving"
                /\ rmodel' = built.val
                /\ UNCHANGED rerr
    /\ UNCHANGED <<schemas, endpoint_config, rpayload, rverdict, xvars, gvars,
                   tvars, svars>>

\* The bodies a client may send: an object whose field a is left out, is not
\* a list, or is a list of whatever, beside a field b, o or neither.
RItemValues ==
    {IntV(1), StrV(<<"a">>), DictV(<<>>), DictV(<<<<"x", StrV(<<"a">>)>>>>),
     DictV(<<<<"x", IntV(1)>>>>)}

RPayloads ==
    {DictV(a \o rest) :
        a \in {<<>>, <<<<"a", IntV(1)>>>>, <<<<"a", ListV(<<>>)>>>>}
              \cup {<<<<"a", ListV(<<v>>)>>>> : v \in RItemValues}
              \cup {<<<<"a", ListV(<<IntV(1), StrV(<<"a">>)>>)>>>>},
        rest \in {<<>>, <<<<"b", StrV(<<"a">>)>>>>, <<<<"b", IntV(1)>>>>,
                  <<<<"o", DictV(<<>>)>>>>}}

\* A request to the route (89-104): FastAPI validates the body against the
\* model the handler's payload is annotated with and answers 422 when it
\* does not pass; the handler itself answers "Valid".
Handler ==
    /\ rpc = "serving"
    /\ \E payload \in RPayloads :
           /\ rpayload' = payload
           /\ rverdict' = IF rmodel = NoModel \/ Accepts(rmodel, payload)
                          THEN "Valid" ELSE "422"
    /\ UNCHANGED <<schemas, endpoint_config, rpc, rmodel, rerr, xvars, gvars,
                   tvars, svars>>

\* No endpoint is being initialised.
RIdle ==
    /\ endpoint_config = EmptyDict
    /\ rpc = "idle"
    /\ rmodel = NoModel
    /\ rerr = None
    /\ rpayload = None
    /\ rverdict = None

(***************************************************************************)
(* DocCompliler.parse_schema and parse_endpoint_body (src/translator.py    *)
(* 31-121).  The mapping tables is an ordered dict: a sequence of          *)
(* <<name, rows>> pairs, the rows of a table a sequence of <<field, row>>  *)
(* pairs.  A type is the string the code builds.                           *)
(***************************************************************************)
\* The name add_endpoint gives the table of a request body (line 192).
BaseName == "JSON Message Body"

\* key in d, d[key] and d.pop(key) of an ordered dict
DictHas(pairs, key) == \E k \in DOMAIN pairs : pairs[k][1] = key
DictGet(pairs, key) ==
    pairs[CHOOSE k \in DOMAIN pairs : pairs[k][1] = key][2]
DictPop(pairs, key) == SelectSeq(pairs, LAMBDA pair : pair[1] # key)

\* Line 32, the memo guard: schema_name in tables
AlreadyParsed(schema_name, mapping) == DictHas(mapping, schema_name)

\* f"array[{item_type}]"
ArrayType(item_type) == "array[" \o item_type \o "]"

\* f"{base_type}/{field_format}" if field_format else base_type (67, 90)
TypeFormat(base_type, field_format) ==
    IF field_format # "" THEN base_type \o "/" \o field_format ELSE base_type

\* schema_catalog.get(ref_name, {}) (40, 50, 72, 83)
CatalogGet(ref_name) == Get(schemas, ref_name, EmptyDict)

\* The row of lines 100-104.
TRow(schema, field, field_details, field_type) ==
    [type        |-> field_type,
     description |-> Get(field_details, "description", ""),
     required    |-> InList(field, Get(schema, "required", <<>>))]

\* A fresh call parse_schema(schema_name, schema, tables, schema_catalog).
TFrame(schema_name, schema) ==
    [schema_name   |-> schema_name,
     schema        |-> schema,
     pc            |-> "entry",
     i             |-> 1,
     schema_fields |-> <<>>,
     val           |-> ""]

TTop == tstack[Len(tstack)]

\* The caller, left at `caller`, calls parse_schema: a frame more, or
\* RecursionError when the stack is full.
TCall(caller, callee) ==
    IF Len(tstack) >= RecursionLimit
    THEN /\ tpc' = "raised"
         /\ tstack' = <<>>
    ELSE /\ tstack' = Append([tstack EXCEPT ![Len(tstack)] = caller], callee)
         /\ UNCHANGED tpc

\* return val
TRet(frame, val) ==
    /\ tstack' = [tstack EXCEPT ![Len(tstack)] =
                     [frame EXCEPT !.pc = "ret", !.val = val]]
    /\ UNCHANGED tpc

\* Lines 32-59: the memo guard, the registration of the empty table, and
\* the $ref, array and primitive cases.
TEntry ==
    /\ tpc = "run"
    /\ TTop.pc = "entry"
    /\ LET f == TTop
           schema_type == Get(f.schema, "type", None)
           items == Get(f.schema, "items", EmptyDict)
       IN  IF AlreadyParsed(f.schema_name, tables)
           THEN \* 33: return schema_name
                /\ TRet(f, f.schema_name)
                /\ UNCHANGED tables
           ELSE /\ tables' = DictPut(tables, f.schema_name, <<>>)
                /\ IF IsRef(f.schema)
                   THEN \* 39-41
                        TCall([f EXCEPT !.pc = "refwait"],
                              TFrame(RefName(f.schema.ref),
                                     CatalogGet(RefName(f.schema.ref))))
                   ELSE IF schema_type = "array"
                   THEN IF IsRef(items)
                        THEN \* 49-51
                             TCall([f EXCEPT !.pc = "itemwait"],
                                   TFrame(RefName(items.ref),
                                          CatalogGet(RefName(items.ref))))
                        ELSE IF "type" \in DOMAIN items
                        THEN TRet(f, ArrayType(items.type))
                        ELSE TRet(f, "array[unknown]")
                   ELSE IF schema_type # "object"
                           /\ "properties" \notin DOMAIN f.schema
                   THEN \* 59: schema_type or "unknown"
                        TRet(f, IF schema_type \in {None, ""}
                                THEN "unknown" ELSE schema_type)
                   ELSE /\ tstack' = [tstack EXCEPT ![Len(tstack)].pc = "props"]
                        /\ UNCHANGED tpc
    /\ UNCHANGED <<schemas, tbase, xvars, gvars, rvars, svars>>

\* The frame once the row of the current field is stored (100-104).
TWithRow(frame, field_type) ==
    LET field == frame.schema.properties[frame.i][1]
        field_details == frame.schema.properties[frame.i][2]
    IN  [frame EXCEPT
            !.schema_fields = DictPut(frame.schema_fields, field,
                                  TRow(frame.schema, field, field_details,
                                       field_type)),
            !.i = frame.i + 1,
            !.pc = "props"]

\* Lines 64-104: one turn of the loop over the properties.
TField ==
    /\ tpc = "run"
    /\ TTop.pc = "props"
    /\ TTop.i <= Len(Get(TTop.schema, "properties", <<>>))
    /\ LET f == TTop
           field == f.schema.properties[f.i][1]
           field_details == f.schema.properties[f.i][2]
           base_type == Get(field_details, "type", "")
           field_format == Get(field_details, "format", "")
           items == Get(field_details, "items", EmptyDict)
           item_type == Get(items, "type", "")
           item_format == Get(items, "format", "")
       IN  IF IsRef(field_details)
           THEN \* 71-73
                TCall([f EXCEPT !.pc = "propref"],
                      TFrame(RefName(field_details.ref),
                             CatalogGet(RefName(field_details.ref))))
           ELSE IF base_type = "array"
           THEN IF IsRef(items)
                THEN \* 82-84
                     TCall([f EXCEPT !.pc = "propitemref"],
                           TFrame(RefName(items.ref),
                                  CatalogGet(RefName(items.ref))))
                ELSE IF item_type = "object" /\ "properties" \in DOMAIN items
                THEN \* 86-88
                     TCall([f EXCEPT !.pc = "propiteminline"],
                           TFrame(field, items))
                ELSE /\ tstack' = [tstack EXCEPT ![Len(tstack)] =
                            TWithRow(f, ArrayType(TypeFormat(item_type,
                                                             item_format)))]
                     /\ UNCHANGED tpc
           ELSE IF base_type = "object" /\ "properties" \in DOMAIN field_details
           THEN \* 96-98
                TCall([f EXCEPT !.pc = "propinline"],
                      TFrame(field, field_details))
           ELSE /\ tstack' = [tstack EXCEPT ![Len(tstack)] =
                       TWithRow(f, TypeFormat(base_type, field_format))]
                /\ UNCHANGED tpc
    /\ UNCHANGED <<schemas, tbase, tables, xvars, gvars, rvars, svars>>

\* Lines 107-109: the loop is exhausted, the table is registered.
TFieldsEnd ==
    /\ tpc = "run"
    /\ TTop.pc = "props"
    /\ TTop.i > Len(Get(TTop.schema, "properties", <<>>))
    /\ tables' = DictPut(tables, TTop.schema_name, TTop.schema_fields)
    /\ TRet(TTop, TTop.schema_name)
    /\ UNCHANGED <<schemas, tbase, xvars, gvars, rvars, svars>>

\* A call returns its string: to the return of line 41 or 51, to the field
\* of line 73, 84, 87 or 97, or to parse_endpoint_body (115).
TReturn ==
    /\ tpc = "run"
    /\ TTop.pc = "ret"
    /\ IF Len(tstack) = 1
       THEN /\ tstack' = <<>>
            /\ tpc' = "rekey"
       ELSE LET caller == tstack[Len(tstack) - 1]
                val == TTop.val
                field == caller.schema.properties[caller.i][1]
                back ==
                    CASE caller.pc = "refwait" ->
                            [caller EXCEPT !.pc = "ret", !.val = val]
                      [] caller.pc = "itemwait" ->
                            [caller EXCEPT !.pc = "ret",
                                           !.val = ArrayType(val)]
                      [] caller.pc = "propref" -> TWithRow(caller, val)
                      [] caller.pc = "propitemref" ->
                            TWithRow(caller, ArrayType(val))
                      [] caller.pc = "propiteminline" ->
                            TWithRow(caller, ArrayType(field))
                      [] caller.pc = "propinline" -> TWithRow(caller, field)
            IN  /\ tstack' = [Front(tstack) EXCEPT ![Len(tstack) - 1] = back]
                /\ UNCHANGED tpc
    /\ UNCHANGED <<schemas, tbase, tables, xvars, gvars, rvars, svars>>

\* Lines 117-121 of parse_endpoint_body: the table of a top-level $ref is
\* moved under the base name; tables.pop raises KeyError on a missing key.
ParseEndpointBodyEnd ==
    /\ tpc = "rekey"
    /\ IF ~IsRef(tbase)
       THEN /\ tpc' = "done"
            /\ UNCHANGED tables
       ELSE IF ~DictHas(tables, RefName(tbase.ref))
       THEN /\ tpc' = "raised"
            /\ UNCHANGED tables
       ELSE /\ tpc' = "done"
            /\ tables' = DictPut(DictPop(tables, RefName(tbase.ref)), BaseName,
                                 DictGet(tables, RefName(tbase.ref)))
    /\ UNCHANGED <<schemas, tbase, tstack, xvars, gvars, rvars, svars>>

(***************************************************************************)
(* Sender: the loaded document and the request handlers (src/sender.py     *)
(* 215-309, 428-514).  A YAML mapping whose value may be null (a key with  *)
(* nothing after it) is the record YMap(pairs) or YNull; the document is a *)
(* record of its top-level keys, or YNull for an empty file.  The chain    *)
(* requestBody.content["application/json"].schema of an operation is       *)
(* folded into requestBody.schema.                                         *)
(***************************************************************************)
YNull == [null |-> TRUE]
YMap(pairs) == [items |-> pairs]
IsNull(v) == "null" \in DOMAIN v

\* The file at config_path: missing, not YAML, or a YAML document.
NoFile == [file |-> "missing"]
BadFile == [file |-> "malformed"]
FileOf(doc) == [file |-> "yaml", doc |-> doc]

\* load_config(), lines 250-255: open() fails on a missing file and
\* yaml.safe_load on a text that is not YAML.
LoadConfig(file) ==
    IF file = NoFile THEN Raises("Exception")
    ELSE IF file = BadFile THEN Raises("YAMLError")
    ELSE Returns(file.doc)

RECURSIVE EndpointsOf(_, _)
\* The inner loop of load_endpoints, lines 261-266.
EndpointsOf(path, methods) ==
    IF methods = <<>> THEN <<>>
    ELSE <<[path |-> path, method |-> methods[1][1],
            details |-> methods[1][2]]>>
         \o EndpointsOf(path, Tail(methods))

RECURSIVE LoadPaths(_)
\* The outer loop of load_endpoints, lines 260-266, over the rest of the
\* paths: methods.items() fails on a null.
LoadPaths(paths) ==
    IF paths = <<>> THEN Returns(<<>>)
    ELSE IF IsNull(paths[1][2]) THEN Raises("AttributeError")
    ELSE LET rest == LoadPaths(Tail(paths))
         IN  IF rest.exc # None THEN rest
             ELSE Returns(EndpointsOf(paths[1][1], paths[1][2].items)
                              \o rest.val)

\* load_endpoints(), lines 257-267, of the document cfg.
LoadEndpoints(cfg) ==
    IF IsNull(cfg) THEN Raises("AttributeError")
    ELSE LET path_config == Get(cfg, "paths", YMap(<<>>))
         IN  IF IsNull(path_config) THEN Raises("AttributeError")
             ELSE LoadPaths(path_config.items)

\* self.config.get("components", {}).get("schemas", {}), lines 222 and 513
SchemasOf(cfg) ==
    IF IsNull(cfg) THEN Raises("AttributeError")
    ELSE LET components == Get(cfg, "components", EmptyDict)
         IN  IF IsNull(components) THEN Raises("AttributeError")
             ELSE Returns(Get(components, "schemas", EmptyDict))

\* No coroutine runs while a walk is on the stack: the walkers never await.
SLoopFree == gpc # "run" /\ xpc # "run"

NoRequest == [pending |-> FALSE]

\* The file is written by whoever edits the document.
EditFile(file) ==
    /\ disk' = file
    /\ disk' # disk
    /\ UNCHANGED <<schemas, config, endpoints, sreply, spending, ssent,
                   xvars, gvars, tvars, rvars>>

\* reload_config_handler, lines 510-514: three assignments in a row, each
\* made only if its right-hand side did not raise.
ReloadConfigHandler ==
    /\ SLoopFree
    /\ LET loaded == LoadConfig(disk)
           new_endpoints == LoadEndpoints(loaded.val)
           new_schemas == SchemasOf(loaded.val)
       IN  IF loaded.exc # None
           THEN \* 511 raises
                /\ sreply' = "Internal Server Error"
                /\ UNCHANGED <<config, endpoints, schemas>>
           ELSE IF new_endpoints.exc # None
           THEN \* 512 raises
                /\ config' = loaded.val
                /\ sreply' = "Internal Server Error"
                /\ UNCHANGED <<endpoints, schemas>>
           ELSE IF new_schemas.exc # None
           THEN \* 513 raises
                /\ config' = loaded.val
                /\ endpoints' = new_endpoints.val
                /\ sreply' = "Internal Server Error"
                /\ UNCHANGED schemas
           ELSE /\ config' = loaded.val
                /\ endpoints' = new_endpoints.val
                /\ schemas' = new_schemas.val
                /\ sreply' = "Config reloaded"
    /\ UNCHANGED <<disk, spending, ssent, xvars, gvars, tvars, rvars>>

\* generate_body(endpoint_index), lines 489-495, with generate_request_body,
\* lines 269-282: the walk of the endpoint's schema over self.schemas.
GenerateBody(endpoint_index) ==
    /\ SLoopFree
    /\ IF endpoint_index >= Len(endpoints)
       THEN /\ sreply' = "Endpoint not found"
            /\ UNCHANGED gvars
       ELSE LET details == endpoints[endpoint_index + 1].details
            IN  IF "requestBody" \notin DOMAIN details
                THEN /\ sreply' = "body"
                     /\ UNCHANGED gvars
                ELSE /\ sreply' = "body"
                     /\ groot' = details.requestBody.schema
                     /\ gstack' = <<GFrame(groot')>>
                     /\ gpc' = "run"
                     /\ gresult' = None
                     /\ gerr' = None
    /\ UNCHANGED <<schemas, disk, config, endpoints, spending, ssent, xvars,
                   tvars, rvars>>

\* endpoint_schema(endpoint_index), lines 458-472, with
\* get_endpoint_schema_info, lines 428-455: the walk of extract_schema_fields;
\* an empty schema gives no fields without a walk.
EndpointSchema(endpoint_index) ==
    /\ SLoopFree
    /\ IF endpoint_index >= Len(endpoints)
       THEN /\ sreply' = "Endpoint not found"
            /\ UNCHANGED xvars
       ELSE LET details == endpoints[endpoint_index + 1].details
            IN  IF "requestBody" \notin DOMAIN details
                   \/ details.requestBody.schema = EmptyDict
                THEN /\ sreply' = "fields"
                     /\ UNCHANGED xvars
                ELSE /\ sreply' = "fields"
                     /\ xroot' = details.requestBody.schema
                     /\ xstack' = <<XFrame(xroot', <<>>, <<>>, {})>>
                     /\ xpc' = "run"
                     /\ xresult' = <<>>
    /\ UNCHANGED <<schemas, disk, config, endpoints, spending, ssent, gvars,
                   tvars, rvars>>

\* send_request_handler, line 498: the call is suspended in
\* `await request.json()`.
SendRequestHandler(endpoint_index) ==
    /\ SLoopFree
    /\ spending = NoRequest
    /\ spending' = [pending |-> TRUE, endpoint_index |-> endpoint_index]
    /\ UNCHANGED <<schemas, disk, config, endpoints, sreply, ssent, xvars,
                   gvars, tvars, rvars>>

\* send_request_handler resumed, lines 499-506, up to the await of
\* send_request (lines 286-291): the endpoint is read from self.endpoints
\* and the target from the second server of self.config.
SendRequestResume ==
    /\ SLoopFree
    /\ spending # NoRequest
    /\ spending' = NoRequest
    /\ LET servers == Get(config, "servers", <<>>)
       IN  IF spending.endpoint_index >= Len(endpoints)
           THEN ssent' = [status |-> "Endpoint not found"]
           ELSE IF IsNull(config)
           THEN ssent' = [status |-> "AttributeError"]
           ELSE IF Len(servers) < 2
           THEN ssent' = [status |-> "IndexError"]
           ELSE ssent' =
                   [status |-> "sent",
                    url    |-> servers[2].url
                               \o endpoints[spending.endpoint_index + 1].path]
    /\ UNCHANGED <<schemas, disk, config, endpoints, sreply, xvars, gvars,
                   tvars, rvars>>

\* No sender is running.
SIdle ==
    /\ disk = NoFile
    /\ config = YNull
    /\ endpoints = <<>>
    /\ sreply = None
    /\ spending = NoRequest
    /\ ssent = [status |-> None]

\* No flatten pass is under way.
TIdle ==
    /\ tbase = EmptyDict
    /\ tstack = <<>>
    /\ tpc = "idle"
    /\ tables = <<>>

(***************************************************************************)
(* The catalogs and top-level fragments the field extractor is run on.     *)
(***************************************************************************)
IntB == [type |-> "integer", minimum |-> 1, maximum |-> 5]

\* What a property of a catalog schema may be.
XPropKinds ==
    {StrT, IntB, Ref("A"), Ref("B"), Ref("M"),
     ArrOf(Ref("A")), ArrOf(Ref("B")), ArrOf(StrT),
     Obj(<<<<"r", StrT>>>>),
     Obj(<<<<"r", ArrOf(Ref("A"))>>>>)}

XSchemasA ==
    {[type |-> "object", properties |-> <<<<"p", k1>>, <<"q", k2>>>>,
      required |-> <<"p">>] : k1 \in XPropKinds, k2 \in {StrT, ArrOf(Ref("B")), Ref("B")}}

XSchemasB ==
    {Obj(<<<<"s", k>>>>) : k \in XPropKinds} \cup {ArrOf(Ref("A")), Ref("A")}

XCatalogs == {[A |-> a, B |-> b] : a \in XSchemasA, b \in XSchemasB}

XRoots == {Ref("A"), Ref("B"), Ref("M"), ArrOf(Ref("A")), ArrOf(Ref("M"))}

GIdle ==
    /\ groot = EmptyDict
    /\ gstack = <<>>
    /\ gpc = "idle"
    /\ gresult = None
    /\ gerr = None

InitExtract ==
    /\ schemas \in XCatalogs
    /\ xroot \in XRoots
    /\ xstack = <<XFrame(xroot, <<>>, <<>>, {})>>
    /\ xpc = "run"
    /\ xresult = <<>>
    /\ GIdle
    /\ TIdle
    /\ RIdle
    /\ SIdle

(***************************************************************************)
(* The catalogs and top-level fragments the generator is run on.           *)
(***************************************************************************)
\* A key that is left out, or set to one of vals.
Opt(key, vals) == {EmptyDict} \cup {key :> v : v \in vals}

\* Integer nodes: every choice of bounds, exclusive flags and multipleOf.
GIntegerNodes ==
    {[type |-> "integer"] @@ lo @@ hi @@ xlo @@ xhi @@ m :
        lo \in Opt("minimum", {3, 5}), hi \in Opt("maximum", {0, 5, 7, 9}),
        xlo \in Opt("exclusiveMinimum", {TRUE}),
        xhi \in Opt("exclusiveMaximum", {TRUE}),
        m \in Opt("multipleOf", {2, 4})}

\* The scenario of the specification: an object whose only property is an
\* integer that can only be 18.
AgeSchema ==
    [type |-> "object",
     properties |-> <<<<"age", [type |-> "integer", minimum |-> 18,
                                maximum |-> 18]>>>>,
     required |-> <<"age">>]

\* Number nodes, their bounds in millionths.
GNumberNodes ==
    {[type |-> "number"] @@ lo @@ hi @@ xlo @@ m :
        lo \in Opt("minimum", {1000, 10000, Micro}),
        hi \in Opt("maximum", {4000, 20000, 2 * Micro}),
        xlo \in Opt("exclusiveMinimum", {TRUE}),
        m \in Opt("multipleOf", {5000})}

PatternAB == [src |-> "(ab)*", ok |-> TRUE,
              matches |-> {<<>>, <<"a", "b">>, <<"a", "b", "a", "b">>}]
PatternBad == [src |-> "(ab", ok |-> FALSE, matches |-> {}]

\* String nodes.
GStringNodes ==
    {[type |-> "string"] @@ lo @@ hi @@ fmt @@ pat :
        lo \in Opt("minLength", {0, 2}), hi \in Opt("maxLength", {0, 2, 3}),
        fmt \in Opt("format", {"email", "byte", "binary"}),
        pat \in Opt("pattern", {PatternAB, PatternBad})}

\* Enum nodes, with whatever else a node may declare beside its enum.
GEnumNodes ==
    {[enum |-> <<IntV(7), StrV(<<"a">>)>>] @@ ty @@ lo @@ fmt @@ pat @@ props :
        ty \in Opt("type", {"integer", "string", "object", "array", "boolean"}),
        lo \in Opt("minimum", {50}), fmt \in Opt("format", {"email", "byte"}),
        pat \in Opt("pattern", {PatternAB}),
        props \in Opt("properties", {<<<<"x", StrT>>>>})}

\* Item schemas whose values are few: enums that mix value types, a small
\* integer range, booleans.
GItemSchemas ==
    {[enum |-> <<IntV(1), FloatV(Micro)>>],
     [enum |-> <<IntV(1), BoolV(TRUE)>>],
     [enum |-> <<StrV(<<"1">>), IntV(1)>>],
     [enum |-> <<IntV(1), IntV(2)>>],
     [type |-> "integer", minimum |-> 1, maximum |-> 2],
     [type |-> "string", minLength |-> 1, maxLength |-> 1],
     [type |-> "boolean"]}

\* Array nodes: of few-valued items with declared sizes, and of a constant
\* item with any choice of size keys.
GArrayNodes ==
    {[type |-> "array", items |-> it] @@ lo @@ hi @@ u :
        it \in GItemSchemas, lo \in Opt("minItems", {0, 2}),
        hi \in {"maxItems" :> 2, "maxItems" :> 3},
        u \in Opt("uniqueItems", {TRUE})}
    \cup
    {[type |-> "array", items |-> [enum |-> <<IntV(1)>>]] @@ lo @@ hi @@ u :
        lo \in Opt("minItems", {0, 2, 11}), hi \in Opt("maxItems", {0, 2}),
        u \in Opt("uniqueItems", {TRUE})}

\* What a property of a catalog schema may be.
GPropKinds ==
    {[type |-> "integer", minimum |-> 1, maximum |-> 2],
     [enum |-> <<IntV(7), StrV(<<"a">>)>>],
     Ref("A"), Ref("B"), Ref("M"),
     ArrOf(Ref("A")) @@ [minItems |-> 0, maxItems |-> 1],
     ArrOf(Ref("B")) @@ [minItems |-> 1, maxItems |-> 1]}

GCatalogs ==
    {[A |-> Obj(<<<<"p", k1>>>>), B |-> b] :
        k1 \in GPropKinds,
        b \in {Obj(<<<<"s", k2>>>>) : k2 \in GPropKinds}
              \cup {[enum |-> <<IntV(7), StrV(<<"a">>)>>, type |-> "object"],
                    Ref("A")}}

\* Schemas that describe to the generator fields the flat list of the
\* receiver can describe as well: typed fields, required flags, numeric
\* bounds, nested objects and arrays.
GDualKinds ==
    {[type |-> "string", minLength |-> 1, maxLength |-> 1],
     [type |-> "integer", minimum |-> 3, maximum |-> 4],
     [type |-> "integer", maximum |-> 2],
     [type |-> "number", minimum |-> 10000, maximum |-> 20000],
     [type |-> "number", minimum |-> 1000, maximum |-> 4000],
     [type |-> "boolean"],
     [type |-> "object",
      properties |-> <<<<"in", [type |-> "integer", minimum |-> 3,
                                maximum |-> 4]>>>>,
      required |-> <<"in">>],
     [type |-> "array", minItems |-> 1, maxItems |-> 2,
      items |-> [type |-> "integer", minimum |-> 1, maximum |-> 1]],
     [type |-> "array", minItems |-> 1, maxItems |-> 1,
      items |-> [type |-> "object",
                 properties |-> <<<<"id", [type |-> "boolean"]>>>>,
                 required |-> <<"id">>]]}

GDualSchemas ==
    {[type |-> "object", properties |-> <<<<"f", k1>>, <<"g", k2>>>>,
      required |-> req] :
        k1 \in GDualKinds, k2 \in GDualKinds, req \in {<<>>, <<"f", "g">>}}

\* Nodes whose type is not one generate_field_data knows, alone and as the
\* property of an object.
GUnknownNodes ==
    {[type |-> "blob"], [type |-> "blob", minLength |-> 20],
     Obj(<<<<"u", [type |-> "blob"]>>, <<"v", [type |-> "boolean"]>>>>)}

\* A scenario: a catalog and the fragment of the outermost call.
GScenarios ==
    {[schemas |-> EmptyDict, root |-> r] :
        r \in GIntegerNodes \cup GNumberNodes \cup GStringNodes
              \cup GEnumNodes \cup GArrayNodes \cup {AgeSchema}
              \cup GDualSchemas \cup GUnknownNodes}
    \cup
    {[schemas |-> c, root |-> r] :
        c \in GCatalogs, r \in {Ref("A"), Ref("B"), Ref("M"), ArrOf(Ref("B")) @@ [maxItems |-> 1]}}

XIdle ==
    /\ xroot = EmptyDict
    /\ xstack = <<>>
    /\ xpc = "idle"
    /\ xresult = <<>>

Init ==
    /\ \E sc \in GScenarios :
           /\ schemas = sc.schemas
           /\ groot = sc.root
    /\ gstack = <<GFrame(groot)>>
    /\ gpc = "run"
    /\ gresult = None
    /\ gerr = None
    /\ XIdle
    /\ TIdle
    /\ RIdle
    /\ SIdle

(***************************************************************************)
(* The catalogs and top-level fragments the table flattener is run on.     *)
(***************************************************************************)
\* What a property may be: primitives with and without a format, a missing
\* and an unrecognised type, references to an object schema, to a primitive
\* schema and to a name the catalog lacks, arrays, inline objects.
TPropKinds ==
    {StrT, [type |-> "string", format |-> "date", description |-> "a day"],
     [description |-> "untyped"], [type |-> "blob"],
     Ref("A"), Ref("B"), Ref("S"), Ref("M"),
     ArrOf(Ref("B")), ArrOf(Ref("S")), ArrOf(StrT),
     ArrOf([type |-> "string", format |-> "date"]),
     [type |-> "array"],
     ArrOf(Obj(<<<<"x", StrT>>>>)),
     Obj(<<<<"y", StrT>>>>)}

\* The schema A: two properties, the second of them q or B.
TSchemasA ==
    {[type |-> "object", properties |-> <<<<"p", k1>>, <<n2, k2>>>>,
      required |-> <<"p">>] :
        k1 \in TPropKinds, n2 \in {"q", "B"},
        k2 \in {StrT, Ref("A"), Ref("B"), Ref("S"),
                Obj(<<<<"y", StrT>>>>)}}

\* The schema B: an object with one property p, an alias of A, an array of
\* A, a primitive.
TSchemasB ==
    {Obj(<<<<"p", k>>>>) :
        k \in {StrT, Ref("A"), Ref("B"), ArrOf(Ref("A")),
               Obj(<<<<"z", StrT>>>>), ArrOf(Obj(<<<<"z", StrT>>>>))}}
    \cup {Ref("A"), ArrOf(Ref("A")), StrT}

TCatalogs == {[A |-> a, B |-> b, S |-> StrT] : a \in TSchemasA, b \in TSchemasB}

\* The top-level fragments: references, arrays, primitives, and inline
\* objects one of whose properties is named like a catalog schema or like
\* the base table.
TRoots ==
    {Ref("A"), Ref("B"), Ref("S"), Ref("M"), ArrOf(Ref("A")), ArrOf(StrT),
     [type |-> "array"], StrT, EmptyDict,
     Obj(<<<<"B", Obj(<<<<"x", StrT>>>>)>>, <<"r", Ref("B")>>>>),
     Obj(<<<<"r", Ref("B")>>, <<"B", Obj(<<<<"x", StrT>>>>)>>>>),
     Obj(<<<<BaseName, Obj(<<<<"x", StrT>>>>)>>, <<"r", Ref("A")>>>>)}

InitTranslate ==
    /\ schemas \in TCatalogs
    /\ tbase \in TRoots
    /\ tstack = <<TFrame(BaseName, tbase)>>
    /\ tpc = "run"
    /\ tables = <<>>
    /\ XIdle
    /\ GIdle
    /\ RIdle
    /\ SIdle

(***************************************************************************)
(* The endpoint configurations the receiver is run on.                     *)
(***************************************************************************)
\* A field descriptor of the flat list.
RField(name, dataType, parentProperty) ==
    [name |-> name, dataType |-> dataType, parentProperty |-> parentProperty]

\* What the list may hold below the array a: nothing, a wrapper object with
\* or without fields of its own, a child that is no object, several
\* children.
RArrayChildren ==
    {<<>>,
     <<RField("w", "object", "a")>>,
     <<RField("w", "object", "a"),
       RField("x", "string", "w") @@ [required |-> TRUE]>>,
     <<RField("c", "string", "a")>>,
     <<RField("w", "object", "a"), RField("v", "object", "a"),
       RField("x", "string", "w") @@ [required |-> TRUE]>>,
     <<RField("w", "object", "a"), RField("c", "string", "a"),
       RField("x", "string", "w") @@ [required |-> TRUE]>>}

\* What else the list may hold: a second top-level field of a recognised, an
\* unrecognised or a missing type, an object with a nested array of
\* objects, an object with a nested array that is named a as well, an
\* object that names itself as its parent; fields that name themselves or
\* each other as parent and hang below no top-level field, a name held by
\* an object and by the string below it, an object below the object below
\* it, an array below the wrapper of its items.
RSiblings ==
    {<<>>,
     <<RField("b", "string", None)>>,
     <<RField("b", "integer", None) @@ [minValue |-> 1, maxValue |-> 5]>>,
     <<RField("b", "blob", None)>>,
     <<[name |-> "b", parentProperty |-> None]>>,
     <<RField("o", "object", None), RField("a2", "array", "o"),
       RField("w2", "object", "a2"),
       RField("y", "integer", "w2") @@ [required |-> TRUE]>>,
     <<RField("o", "object", None), RField("a", "array", "o"),
       RField("w3", "object", "a")>>,
     <<RField("o", "object", None), RField("o", "object", "o")>>,
     <<RField("p", "object", "p")>>,
     <<RField("p", "object", "q"), RField("q", "object", "p")>>,
     <<RField("q", "object", None), RField("q", "string", "q")>>,
     <<RField("p", "object", None), RField("q", "object", "p"),
       RField("p", "object", "q")>>,
     <<RField("r", "array", None), RField("s", "object", "r"),
       RField("r", "array", "s")>>}

REndpointConfigs ==
    {[bodyFields |-> <<RField("a", "array", None) @@ [required |-> req]>>
                         \o children \o siblings] @@ url @@ method :
        req \in {TRUE, FALSE}, children \in RArrayChildren,
        siblings \in RSiblings,
        url \in Opt("url", {"/orders"}),
        method \in Opt("method", {"POST", "GET"})}

InitReceive ==
    /\ schemas = EmptyDict
    /\ endpoint_config \in REndpointConfigs
    /\ rpc = "init"
    /\ rmodel = NoModel
    /\ rerr = None
    /\ rpayload = None
    /\ rverdict = None
    /\ XIdle
    /\ GIdle
    /\ TIdle
    /\ SIdle

(***************************************************************************)
(* The documents the sender is run on.                                     *)
(***************************************************************************)
SServers == <<[url |-> "http://host"], [url |-> "http://target"]>>

\* An operation whose request body is the schema.
SOperation(schema) == [requestBody |-> [schema |-> schema]]

\* Two documents that load: each names a schema Order, with different
\* fields, and routes of its own.
SDocOne ==
    [servers |-> SServers,
     paths |-> YMap(<<<<"/one", YMap(<<<<"post", SOperation(Ref("Order"))>>>>)>>>>),
     components |->
         [schemas |->
              [Order |-> Obj(<<<<"n", [type |-> "integer", minimum |-> 1,
                                       maximum |-> 2]>>,
                               <<"t", ArrOf([type |-> "boolean"])
                                        @@ [minItems |-> 1, maxItems |-> 1]>>>>
                         )]]]
SDocTwo ==
    [servers |-> SServers,
     paths |-> YMap(<<<<"/two", YMap(<<<<"post", SOperation(Ref("Item"))>>,
                                      <<"get", EmptyDict>>>>)>>>>),
     components |->
         [schemas |-> [Item |-> Obj(<<<<"id", [type |-> "boolean"]>>>>)]]]

\* Documents that parse as YAML and do not load: an empty file, a paths or
\* a components key with nothing after it, a path with nothing after it.
SDocEmpty == YNull
SDocNoPaths == [servers |-> SServers, paths |-> YNull,
                components |-> SDocTwo.components]
SDocNoMethods == [servers |-> SServers,
                  paths |-> YMap(<<<<"/two", YNull>>>>),
                  components |-> SDocTwo.components]
SDocNoComponents == [servers |-> SServers, paths |-> SDocTwo.paths,
                     components |-> YNull]

SFiles ==
    {NoFile, BadFile} \cup
    {FileOf(doc) : doc \in {SDocOne, SDocTwo, SDocEmpty, SDocNoPaths,
                            SDocNoMethods, SDocNoComponents}}

\* The endpoint_index of a request.
SIndices == {0, 1}

\* The state Sender.__init__ leaves (lines 215-222) on a document that loads.
InitReload ==
    /\ disk \in {FileOf(SDocOne), FileOf(SDocTwo)}
    /\ config = disk.doc
    /\ endpoints = LoadEndpoints(config).val
    /\ schemas = SchemasOf(config).val
    /\ sreply = None
    /\ spending = NoRequest
    /\ ssent = [status |-> None]
    /\ XIdle
    /\ GIdle
    /\ TIdle
    /\ RIdle

Next == GEntry \/ GItem \/ GItemsEnd \/ GProp \/ GPropsEnd \/ GReturn

Spec == Init /\ [][Next]_vars

NextExtract == XEntry \/ XType \/ XProp \/ XLoopEnd \/ XReturn

\* The interpreter runs a call to its end: a walk that can take a step takes it.
SpecExtract == InitExtract /\ [][NextExtract]_vars /\ WF_vars(NextExtract)

NextTranslate ==
    TEntry \/ TField \/ TFieldsEnd \/ TReturn \/ ParseEndpointBodyEnd

\* The interpreter runs a call to its end: a pass that can take a step takes it.
SpecTranslate ==
    InitTranslate /\ [][NextTranslate]_vars /\ WF_vars(NextTranslate)

NextReceive == InitializeEndpoint \/ Handler

NextReload ==
    \/ \E file \in SFiles : EditFile(file)
    \/ ReloadConfigHandler
    \/ \E endpoint_index \in SIndices : GenerateBody(endpoint_index)
    \/ \E endpoint_index \in SIndices : EndpointSchema(endpoint_index)
    \/ \E endpoint_index \in SIndices : SendRequestHandler(endpoint_index)
    \/ SendRequestResume
    \/ Next
    \/ NextExtract

SpecReload == InitReload /\ [][NextReload]_vars

SpecReceive == InitReceive /\ [][NextReceive]_vars

(***************************************************************************)
(* What a catalog holds, read off the fragments (used to state the claims).*)
(***************************************************************************)
RECURSIVE AllRefs(_)
\* Every name a fragment refers to, wherever the $ref stands.
AllRefs(f) ==
    IF IsRef(f) THEN {RefName(f.ref)}
    ELSE UNION {AllRefs(Get(f, "properties", <<>>)[k][2]) :
                    k \in DOMAIN Get(f, "properties", <<>>)}
         \cup (IF "items" \in DOMAIN f THEN AllRefs(f.items) ELSE {})

RECURSIVE WalkRefs(_)
\* The names extract_schema_fields meets as '$ref' of a call's schema_config
\* while it walks f without following any of them: the fragment itself, the
\* items of an array, and what lies below object-typed properties.
WalkRefs(f) ==
    IF IsRef(f) THEN {RefName(f.ref)}
    ELSE IF Get(f, "type", "object") = "object"
    THEN UNION {LET ps == f.properties[k][2]
                IN  IF Get(ps, "type", None) = "object" THEN WalkRefs(ps)
                    ELSE IF Get(ps, "type", None) = "array"
                            /\ ItemsNeedWalk(Get(ps, "items", EmptyDict))
                    THEN WalkRefs(ps.items)
                    ELSE {} : k \in DOMAIN Get(f, "properties", <<>>)}
    ELSE IF Get(f, "type", "object") = "array"
            /\ ItemsNeedWalk(Get(f, "items", EmptyDict))
    THEN WalkRefs(f.items)
    ELSE {}

\* One step along the references of the catalog, by AllRefs or by WalkRefs.
StepAll(S) == S \cup UNION {AllRefs(schemas[n]) : n \in S \cap DOMAIN schemas}
StepWalk(S) == S \cup UNION {WalkRefs(schemas[n]) : n \in S \cap DOMAIN schemas}
\* The catalogs of the model hold two names; three steps close any set.
ReachAll(S) == StepAll(StepAll(StepAll(S)))
ReachWalk(S) == StepWalk(StepWalk(StepWalk(S)))

\* The walk from the top-level fragment reaches a schema that reaches itself.
XReachesCycle ==
    \E n \in ReachWalk(WalkRefs(xroot)) \cap DOMAIN schemas :
        n \in ReachWalk(WalkRefs(schemas[n]))

\* No schema reachable from the top-level fragment refers back to itself, and
\* every name referred to is in the catalog.
XAcyclic ==
    \A n \in ReachAll(AllRefs(xroot)) \cap DOMAIN schemas :
        n \notin ReachAll(AllRefs(schemas[n]))
XAllRefsExist == ReachAll(AllRefs(xroot)) \subseteq DOMAIN schemas

\* The walk from the top-level fragment meets a $ref to a name the catalog
\* does not hold.
XMeetsDangling == ~(ReachWalk(WalkRefs(xroot)) \subseteq DOMAIN schemas)

(***************************************************************************)
(* C1.  On a catalog with a self- or mutually-referential schema the field *)
(* extractor terminates: it never expands a name that is already being     *)
(* expanded further down the stack (the guard returns instead), and every  *)
(* walk reaches its return.                                                *)
(***************************************************************************)
XNoReexpansion ==
    \A i, j \in DOMAIN xstack :
        (i < j /\ xstack[i].pc = "tail" /\ xstack[j].pc = "tail")
            => RefName(xstack[i].cfg.ref) # RefName(xstack[j].cfg.ref)

C1_CyclicWalkTerminates == [](XNoReexpansion) /\ <>(xpc = "done")

C1_Witness == XReachesCycle /\ xpc = "done"

(***************************************************************************)
(* C2.  On an acyclic schema whose references all exist no reference       *)
(* survives in the output of the field extractor: a property of the        *)
(* top-level schema that is a $ref to an object schema gives no row of its *)
(* own, and every property of the referenced schema shows under its path.  *)
(***************************************************************************)
XRootSchema == IF IsRef(xroot) THEN schemas[RefName(xroot.ref)] ELSE xroot

C2_NoReferenceSurvives ==
    (xpc = "done" /\ XAcyclic /\ XAllRefsExist /\ xroot = Ref("A")) =>
        \A k \in DOMAIN XRootSchema.properties :
            LET prop_name == XRootSchema.properties[k][1]
                prop_schema == XRootSchema.properties[k][2]
                target == schemas[RefName(prop_schema.ref)]
            IN  (IsRef(prop_schema) /\ Get(target, "type", None) = "object") =>
                    /\ \A r \in DOMAIN xresult : xresult[r].name # <<prop_name>>
                    /\ \A m \in DOMAIN target.properties :
                           \E r \in DOMAIN xresult :
                               SubSeq(xresult[r].name, 1, 2)
                                   = <<prop_name, target.properties[m][1]>>

(***************************************************************************)
(* C3.  A walk of the field extractor that meets a $ref to a name absent   *)
(* from the catalog ends in a failure: it never returns a field list.      *)
(***************************************************************************)
C3_DanglingRefFails == XMeetsDangling => xpc # "done"

(***************************************************************************)
(* What the generator is run on, read off the fragments.                   *)
(***************************************************************************)
\* The schema the outermost call works on once line 166 has resolved it.
GRootCfg ==
    IF IsRef(groot) /\ RefName(groot.ref) \in DOMAIN schemas
    THEN schemas[RefName(groot.ref)] ELSE groot

RECURSIVE GenRefs(_)
\* The names generate_field_data meets as '$ref' while it generates f
\* without resolving any of them.
GenRefs(f) ==
    IF IsRef(f) THEN {RefName(f.ref)}
    ELSE IF "enum" \in DOMAIN f THEN {}
    ELSE IF Get(f, "type", "string") = "array"
    THEN GenRefs(Get(f, "items", StrT))
    ELSE IF Get(f, "type", "string") = "object"
    THEN UNION {GenRefs(f.properties[k][2]) :
                    k \in DOMAIN Get(f, "properties", <<>>)}
    ELSE {}

\* Line 166 resolves one reference: a catalog entry that is itself a bare
\* reference is generated as a node without enum or type.
GenRefsOf(n) == IF IsRef(schemas[n]) THEN {} ELSE GenRefs(schemas[n])
StepGen(S) == S \cup UNION {GenRefsOf(n) : n \in S \cap DOMAIN schemas}
ReachGen(S) == StepGen(StepGen(StepGen(S)))

\* Generation from the top-level fragment reaches a schema that reaches
\* itself, and reaches no name the catalog lacks.
GReachesCycle ==
    /\ ReachGen(GenRefs(groot)) \subseteq DOMAIN schemas
    /\ \E n \in ReachGen(GenRefs(groot)) : n \in ReachGen(GenRefsOf(n))

GAcyclic ==
    \A n \in ReachGen(GenRefs(groot)) \cap DOMAIN schemas :
        n \notin ReachGen(GenRefsOf(n))
GAllRefsExist == ReachGen(GenRefs(groot)) \subseteq DOMAIN schemas

RECURSIVE Consistent(_)
\* The constraints a fragment and the fragments below it declare can be met
\* together: no pair of bounds is crossed, the enum is not empty, the format
\* is one generate_string has a branch for.
Consistent(f) ==
    /\ ("minimum" \in DOMAIN f /\ "maximum" \in DOMAIN f) =>
           f.minimum + (IF Get(f, "exclusiveMinimum", FALSE) = TRUE THEN 1 ELSE 0)
             <= f.maximum - (IF Get(f, "exclusiveMaximum", FALSE) = TRUE THEN 1 ELSE 0)
    /\ ("minLength" \in DOMAIN f /\ "maxLength" \in DOMAIN f) =>
           f.minLength <= f.maxLength
    /\ ("minItems" \in DOMAIN f /\ "maxItems" \in DOMAIN f) =>
           f.minItems <= f.maxItems
    /\ "enum" \in DOMAIN f => Len(f.enum) > 0
    /\ "format" \in DOMAIN f => f.format \in FakerFormats \cup UnimportedFormats
    /\ "items" \in DOMAIN f => Consistent(f.items)
    /\ \A k \in DOMAIN Get(f, "properties", <<>>) :
           Consistent(f.properties[k][2])

GWellFormed ==
    /\ GAllRefsExist
    /\ GAcyclic
    /\ Consistent(groot)
    /\ \A n \in DOMAIN schemas : Consistent(schemas[n])

(***************************************************************************)
(* C4.  Generation from a schema that reaches itself through $ref          *)
(* terminates with a value: its recursion never runs into the              *)
(* interpreter's limit.                                                    *)
(***************************************************************************)
C4_CyclicGenerationReturns ==
    GReachesCycle => ~(gpc = "raised" /\ gerr = "RecursionError")

(***************************************************************************)
(* C5.  For an integer node with multipleOf = m > 0 and bounds lo <= hi    *)
(* (after the exclusive shifts) every value generated is a multiple of m   *)
(* and lies in lo..hi.                                                     *)
(***************************************************************************)
\* The bounds an integer node declares: minimum and maximum (1 and 100
\* when unset), each moved inward by one when its exclusive flag is true.
DeclaredLo(f) ==
    (IF "minimum" \in DOMAIN f THEN f.minimum ELSE 1)
        + (IF "exclusiveMinimum" \in DOMAIN f /\ f.exclusiveMinimum THEN 1 ELSE 0)
DeclaredHi(f) ==
    (IF "maximum" \in DOMAIN f THEN f.maximum ELSE 100)
        - (IF "exclusiveMaximum" \in DOMAIN f /\ f.exclusiveMaximum THEN 1 ELSE 0)

IsIntegerNode(f) ==
    ~IsRef(f) /\ "enum" \notin DOMAIN f /\ Get(f, "type", "string") = "integer"

C5_MultipleWithinBounds ==
    (/\ gpc = "done"
     /\ IsIntegerNode(groot)
     /\ "multipleOf" \in DOMAIN groot
     /\ DeclaredLo(groot) <= DeclaredHi(groot)) =>
        /\ gresult.n % groot.multipleOf = 0
        /\ DeclaredLo(groot) <= gresult.n
        /\ gresult.n <= DeclaredHi(groot)

(***************************************************************************)
(* C6.  For an integer node without multipleOf every value generated lies  *)
(* between the declared bounds (1 and 100 when unset, each moved inward by *)
(* one when exclusive); a node with minimum = maximum = k and no exclusive *)
(* flag always generates k, and the object whose only property age has     *)
(* minimum 18 and maximum 18 always generates {"age": 18}.  Where the       *)
(* bounds leave a value to draw, generation does not raise.                *)
(***************************************************************************)
IsPinned(f) ==
    /\ "minimum" \in DOMAIN f /\ "maximum" \in DOMAIN f
    /\ f.minimum = f.maximum
    /\ "exclusiveMinimum" \notin DOMAIN f /\ "exclusiveMaximum" \notin DOMAIN f

C6_IntegerWithinBounds ==
    /\ (IsIntegerNode(groot) /\ "multipleOf" \notin DOMAIN groot) =>
           /\ gpc = "done" =>
                  /\ gresult.t = "int"
                  /\ DeclaredLo(groot) <= gresult.n
                  /\ gresult.n <= DeclaredHi(groot)
           /\ DeclaredLo(groot) <= DeclaredHi(groot) => gpc # "raised"
           /\ IsPinned(groot) =>
                  /\ gpc # "raised"
                  /\ gpc = "done" => gresult.n = groot.minimum
    /\ groot = AgeSchema =>
           /\ gpc # "raised"
           /\ gpc = "done" => gresult = DictV(<<<<"age", IntV(18)>>>>)

C6_Witness ==
    /\ groot = AgeSchema
    /\ gpc = "done"
    /\ gresult = DictV(<<<<"age", IntV(18)>>>>)

(***************************************************************************)
(* C7.  The array generated for a node with uniqueItems = true holds no    *)
(* two elements that are equal as values, and no more elements than the    *)
(* size drawn.                                                             *)
(***************************************************************************)
C7_UniqueItemsDistinct ==
    \A d \in DOMAIN gstack :
        LET f == gstack[d]
        IN  (/\ f.pc = "ret"
             /\ "enum" \notin DOMAIN f.cfg
             /\ Get(f.cfg, "type", "string") = "array"
             /\ Get(f.cfg, "uniqueItems", FALSE) = TRUE) =>
                /\ Len(f.val.items) <= f.size
                /\ \A i, j \in DOMAIN f.val.items :
                       i < j => ~ValEq(f.val.items[i], f.val.items[j])

(***************************************************************************)
(* C8.  Generation from a schema whose references all resolve and whose    *)
(* declared constraints are consistent never raises, also when only one    *)
(* bound of a pair is declared and whatever recognised format is named.    *)
(***************************************************************************)
C8_WellFormedNeverRaises == GWellFormed => gpc # "raised"

(***************************************************************************)
(* C9.  A node that declares a non-empty enum, itself or in the catalog    *)
(* schema its $ref names, generates a member of that enum, whatever else   *)
(* it declares; generating it never raises.                                *)
(***************************************************************************)
IsMember(v, enum) == \E k \in DOMAIN enum : v = enum[k]

C9_EnumWins ==
    /\ \A d \in DOMAIN gstack :
           (gstack[d].pc = "ret" /\ "enum" \in DOMAIN gstack[d].cfg) =>
               IsMember(gstack[d].val, gstack[d].cfg.enum)
    /\ ("enum" \in DOMAIN GRootCfg /\ Len(GRootCfg.enum) > 0) =>
           /\ gpc # "raised"
           /\ gpc = "done" => IsMember(gresult, GRootCfg.enum)

C9_Witness ==
    /\ gpc = "done"
    /\ IsRef(groot)
    /\ "enum" \in DOMAIN GRootCfg
    /\ Get(GRootCfg, "type", None) = "object"
    /\ gresult = StrV(<<"a">>)

(***************************************************************************)
(* C10.  Synthesis and validation agree: for a schema that describes the   *)
(* same fields to both sides, every value the generator returns is         *)
(* accepted by the model the receiver builds from the flat list of those   *)
(* fields.                                                                 *)
(***************************************************************************)
RECURSIVE FlatOf(_, _, _)
\* The flat field list that describes the properties of an object schema:
\* a field per property (number is called float, minimum and maximum are
\* called minValue and maxValue), the properties of a nested object below
\* the object's name, those of an array's object items below a wrapper.
FlatOf(props, required, parent) ==
    IF props = <<>> THEN <<>>
    ELSE LET prop_name == props[1][1]
             f == props[1][2]
             field ==
                 [name |-> prop_name,
                  dataType |-> IF f.type = "number" THEN "float" ELSE f.type,
                  parentProperty |-> parent,
                  required |-> InList(prop_name, required)]
                 @@ (IF "minimum" \in DOMAIN f
                     THEN "minValue" :> f.minimum ELSE EmptyDict)
                 @@ (IF "maximum" \in DOMAIN f
                     THEN "maxValue" :> f.maximum ELSE EmptyDict)
             below ==
                 IF f.type = "object"
                 THEN FlatOf(f.properties, Get(f, "required", <<>>), prop_name)
                 ELSE IF f.type = "array" /\ f.items.type = "object"
                 THEN <<[name |-> prop_name \o "Item", dataType |-> "object",
                         parentProperty |-> prop_name, required |-> TRUE]>>
                      \o FlatOf(f.items.properties,
                                Get(f.items, "required", <<>>),
                                prop_name \o "Item")
                 ELSE <<>>
         IN  <<field>> \o below \o FlatOf(Tail(props), required, parent)

C10_GeneratedValueValidates ==
    (gpc = "done" /\ groot \in GDualSchemas) =>
        LET model == BuildNestedModel("RequestModel",
                         FlatOf(groot.properties, groot.required, None))
        IN  model.exc = None /\ Accepts(model.val, gresult)

(***************************************************************************)
(* C14.  The visited set of the field extractor is branch-local: when two  *)
(* sibling properties of one object both lead to the same catalog schema   *)
(* (each a $ref to it or an array of $ref to it), every property of that   *)
(* schema shows under both of them; and a name is in a call's visited set  *)
(* only if a call on the current path from the root met it as its $ref.    *)
(***************************************************************************)
\* The names of visited_refs of every call were met as '$ref' by that call or
\* by a call below it on the stack.
XVisitedOnPath ==
    \A d \in DOMAIN xstack :
        xstack[d].visited_refs \subseteq
            {RefName(xstack[j].cfg.ref) :
                 j \in {j \in 1..d : IsRef(xstack[j].cfg)}}

\* The property leads to the catalog schema n.
XLeadsTo(prop_schema, n) == prop_schema = Ref(n) \/ prop_schema = ArrOf(Ref(n))

\* The path under which the fields of the schema a property leads to show.
XBelow(prop_name, prop_schema) ==
    IF IsRef(prop_schema) THEN <<prop_name>> ELSE <<prop_name, "[*]">>

\* Both properties of schema A lead to the object schema B.
XSiblingsShareB ==
    /\ xroot = Ref("A")
    /\ Get(schemas.B, "type", None) = "object"
    /\ \A k \in DOMAIN schemas.A.properties :
           XLeadsTo(schemas.A.properties[k][2], "B")

C14_SiblingsBothExpanded ==
    /\ XVisitedOnPath
    /\ (xpc = "done" /\ XSiblingsShareB) =>
           \A k \in DOMAIN schemas.A.properties :
               \A m \in DOMAIN schemas.B.properties :
                   LET path == XBelow(schemas.A.properties[k][1],
                                      schemas.A.properties[k][2])
                                   \o <<schemas.B.properties[m][1]>>
                   IN  \E r \in DOMAIN xresult :
                           /\ Len(xresult[r].name) >= Len(path)
                           /\ SubSeq(xresult[r].name, 1, Len(path)) = path

(***************************************************************************)
(* C15.  For a string node with a valid pattern and bounds                 *)
(* 0 <= minLength <= maxLength (1 and max(10, minLength) when unset) the   *)
(* string generated is at least minLength and at most maxLength long,      *)
(* whatever length was drawn, 0 included.                                  *)
(***************************************************************************)
IsStringNode(f) ==
    ~IsRef(f) /\ "enum" \notin DOMAIN f /\ Get(f, "type", "string") = "string"

\* The bounds a string node declares.
DeclaredMinLen(f) == IF "minLength" \in DOMAIN f THEN f.minLength ELSE 1
DeclaredMaxLen(f) ==
    IF "maxLength" \in DOMAIN f THEN f.maxLength
    ELSE IF DeclaredMinLen(f) > 10 THEN DeclaredMinLen(f) ELSE 10

C15_PatternLengthWithinBounds ==
    (/\ gpc = "done"
     /\ IsStringNode(groot)
     /\ "pattern" \in DOMAIN groot
     /\ groot.pattern.ok
     /\ 0 <= DeclaredMinLen(groot)
     /\ DeclaredMinLen(groot) <= DeclaredMaxLen(groot)) =>
        /\ gresult.t = "str"
        /\ DeclaredMinLen(groot) <= Len(gresult.s)
        /\ Len(gresult.s) <= DeclaredMaxLen(groot)

(***************************************************************************)
(* C16.  When generation from a string node's pattern fails, generation    *)
(* does not raise and returns a random alphanumeric string of the drawn    *)
(* length, whatever other keys the node carries, a format included.        *)
(***************************************************************************)
C16_BadPatternFallsBackToRandom ==
    (/\ IsStringNode(groot)
     /\ "pattern" \in DOMAIN groot
     /\ ~groot.pattern.ok
     /\ DeclaredMinLen(groot) <= DeclaredMaxLen(groot)) =>
        /\ gpc # "raised"
        /\ gpc = "done" =>
               /\ gresult.t = "str"
               /\ gresult.s \in RandomAlnum(Len(gresult.s))
               /\ DeclaredMinLen(groot) <= Len(gresult.s)
               /\ Len(gresult.s) <= DeclaredMaxLen(groot)

(***************************************************************************)
(* What the table flattener is run on, read off the fragments.             *)
(***************************************************************************)
\* The fragment declares an object: its type says so, or it has properties.
IsObjectSchema(f) ==
    ~IsRef(f) /\ (Get(f, "type", None) = "object" \/ "properties" \in DOMAIN f)

\* The names of the object schemas of the catalog that the top-level
\* fragment reaches through $ref.
TObjectNames ==
    {n \in ReachAll(AllRefs(tbase)) \cap DOMAIN schemas :
         IsObjectSchema(schemas[n])}

RECURSIVE InlineObjects(_)
\* The inline objects below a fragment, each with the name of the property
\* that declares it: an object-typed property that has properties, and the
\* object-typed items, having properties, of an array property.
InlineObjects(f) ==
    UNION {LET field == f.properties[k][1]
               field_details == f.properties[k][2]
               items == Get(field_details, "items", EmptyDict)
           IN  IF IsRef(field_details) THEN {}
               ELSE IF Get(field_details, "type", None) = "object"
                       /\ "properties" \in DOMAIN field_details
               THEN {<<field, field_details>>} \cup InlineObjects(field_details)
               ELSE IF Get(field_details, "type", None) = "array"
                       /\ ~IsRef(items)
                       /\ Get(items, "type", None) = "object"
                       /\ "properties" \in DOMAIN items
               THEN {<<field, items>>} \cup InlineObjects(items)
               ELSE {} : k \in DOMAIN Get(f, "properties", <<>>)}

\* The inline objects reachable from the top-level fragment.
TInlineObjects ==
    InlineObjects(tbase)
        \cup UNION {InlineObjects(schemas[n]) : n \in TObjectNames}

\* The key under which parse_endpoint_body leaves the table of a name: the
\* base name for the name a top-level $ref designates.
TKeyOf(n) == IF IsRef(tbase) /\ n = RefName(tbase.ref) THEN BaseName ELSE n

\* How many tables the mapping holds under a key.
TCount(key) == Cardinality({k \in DOMAIN tables : tables[k][1] = key})

\* A call that meets a name the mapping already holds returns that name at
\* once and leaves the mapping as it is.
TReencounterReturns ==
    (/\ tpc = "run"
     /\ TTop.pc = "entry"
     /\ DictHas(tables, TTop.schema_name)) =>
        /\ tables' = tables
        /\ tstack' = [tstack EXCEPT ![Len(tstack)] =
                         [TTop EXCEPT !.pc = "ret", !.val = TTop.schema_name]]

(***************************************************************************)
(* C11.  One pass of parse_endpoint_body leaves exactly one table for      *)
(* every distinct name of an object schema reached from the top-level      *)
(* fragment, inline or through $ref, however often it is referenced and    *)
(* also in a cycle (the table keyed by the name, or by the base name for   *)
(* the schema a top-level $ref names); meeting a name again neither adds a *)
(* table nor walks the schema again, and the pass terminates.              *)
(***************************************************************************)
C11_OneTablePerName ==
    /\ [](tpc = "done" =>
            \A n \in TObjectNames \cup {o[1] : o \in TInlineObjects} :
                TCount(TKeyOf(n)) = 1)
    /\ [][TReencounterReturns]_vars
    /\ <>(tpc = "done")

(***************************************************************************)
(* C12.  An object property declared as a $ref is rendered with the name   *)
(* of the referenced schema as its type, at every occurrence and whatever  *)
(* kind of schema the name designates, and once it is rendered the mapping *)
(* holds an entry under that name.                                         *)
(***************************************************************************)
C12_RefRenderedAsName ==
    \A d \in DOMAIN tstack :
        (d > 1 /\ tstack[d].pc = "ret" /\ tstack[d - 1].pc = "propref") =>
            LET caller == tstack[d - 1]
                ref_name == RefName(caller.schema.properties[caller.i][2].ref)
            IN  /\ tstack[d].val = ref_name
                /\ DictHas(tables, ref_name)

(***************************************************************************)
(* C19.  In the mapping parse_endpoint_body returns, every table name that *)
(* is the type of a field, or stands inside its array[...] type, is a key  *)
(* of the mapping, also after the table of a top-level $ref was re-keyed.  *)
(***************************************************************************)
RECURSIVE NamesIn(_)
\* Every name a fragment mentions: the names it refers to and the names of
\* its properties, at any depth.
NamesIn(f) ==
    IF IsRef(f) THEN {RefName(f.ref)}
    ELSE UNION {{f.properties[k][1]} \cup NamesIn(f.properties[k][2]) :
                    k \in DOMAIN Get(f, "properties", <<>>)}
         \cup (IF "items" \in DOMAIN f THEN NamesIn(f.items) ELSE {})

\* Every name a table of the pass can bear.
TNames ==
    {BaseName} \cup DOMAIN schemas \cup NamesIn(tbase)
        \cup UNION {NamesIn(schemas[n]) : n \in DOMAIN schemas}

C19_TypeNamesAreKeys ==
    tpc = "done" =>
        \A t \in DOMAIN tables :
            \A r \in DOMAIN tables[t][2] :
                \A n \in TNames :
                    tables[t][2][r][2].type \in {n, ArrayType(n)}
                        => DictHas(tables, n)

(***************************************************************************)
(* C20.  No declared field is lost in a pass: every property of every      *)
(* inline object reachable from the top-level fragment is a row of the     *)
(* table named after the object, also when two inline objects, or an       *)
(* inline object and a catalog schema or the base table, share a name.     *)
(***************************************************************************)
C20_InlineFieldsKept ==
    tpc = "done" =>
        \A o \in TInlineObjects :
            /\ DictHas(tables, o[1])
            /\ \A k \in DOMAIN o[2].properties :
                   DictHas(DictGet(tables, o[1]), o[2].properties[k][1])

(***************************************************************************)
(* What the receiver is run on, read off the flat field list.              *)
(***************************************************************************)
\* The type tags parse_type knows.
RecognisedTypes == {"string", "float", "integer", "boolean", "array", "object"}

\* The field's type tag is missing or is not a recognised one.
RUntyped(field) ==
    "dataType" \notin DOMAIN field \/ field.dataType \notin RecognisedTypes

\* The descriptor that decides the field `name` of the model built for
\* `parent`: the last one of that name below that parent.
RDeclOf(parent, name) ==
    LET children == ChildrenOf(endpoint_config.bodyFields, parent)
        last == CHOOSE k \in DOMAIN children :
                    /\ children[k].name = name
                    /\ \A j \in DOMAIN children :
                           children[j].name = name => j <= k
    IN  children[last]

\* The names of the fields whose parentProperty is parent.
RChildNames(parent) ==
    LET children == ChildrenOf(endpoint_config.bodyFields, parent)
    IN  {children[k].name : k \in DOMAIN children}

\* The list holds exactly one field whose parentProperty is name, and that
\* field is an object.
ROneObjectChild(name) ==
    LET below == {k \in DOMAIN endpoint_config.bodyFields :
                      endpoint_config.bodyFields[k].parentProperty = name}
    IN  /\ Cardinality(below) = 1
        /\ \A k \in below : endpoint_config.bodyFields[k].dataType = "object"

\* The only field whose parentProperty is name.
RWrapperOf(name) ==
    endpoint_config.bodyFields[
        CHOOSE k \in DOMAIN endpoint_config.bodyFields :
            endpoint_config.bodyFields[k].parentProperty = name]

(***************************************************************************)
(* C13.  A field whose type tag is missing or unrecognised does not make   *)
(* the validation model builder fail: the model is built and the field is  *)
(* a string in it.                                                         *)
(***************************************************************************)
C13_UnknownTypeIsString ==
    \A k \in DOMAIN Get(endpoint_config, "bodyFields", <<>>) :
        LET field == endpoint_config.bodyFields[k]
        IN  (RUntyped(field) /\ field.parentProperty = None) =>
                /\ rpc # "raised"
                /\ (rpc = "serving" /\ rmodel # NoModel) =>
                       \E j \in DOMAIN rmodel.fields :
                           /\ rmodel.fields[j][1] = field.name
                           /\ rmodel.fields[j][2].type.k = "string"

(***************************************************************************)
(* C18.  In the model _build_nested_model returns, an array field has a    *)
(* typed item model exactly when the flat list holds exactly one field     *)
(* whose parentProperty is the array's name and that field is an object;   *)
(* the item model then has the fields whose parentProperty is that         *)
(* wrapper's name.  In every other case the field validates as an array of *)
(* unconstrained values.                                                   *)
(***************************************************************************)
RECURSIVE RArraysAsClaimed(_, _)
\* Every array field of the model built for `parent`, and of the models
\* nested in it, is typed as the claim says.
RArraysAsClaimed(model, parent) ==
    \A k \in DOMAIN model.fields :
        LET name == model.fields[k][1]
            type == model.fields[k][2].type
            decl == RDeclOf(parent, name)
        IN  IF decl.dataType = "array"
            THEN /\ type.k = "list"
                 /\ IF ROneObjectChild(name)
                    THEN /\ "item" \in DOMAIN type
                         /\ type.item.k = "model"
                         /\ {type.item.fields[j][1] :
                                 j \in DOMAIN type.item.fields}
                                = RChildNames(RWrapperOf(name).name)
                         /\ RArraysAsClaimed(type.item, RWrapperOf(name).name)
                    ELSE "item" \notin DOMAIN type
            ELSE IF decl.dataType = "object"
            THEN type.k = "model" /\ RArraysAsClaimed(type, name)
            ELSE TRUE

\* The value the last request gave the field a, in a set: empty when the
\* body left the field out.
RGivenA ==
    {rpayload.items[k][2] :
         k \in {k \in DOMAIN rpayload.items : rpayload.items[k][1] = "a"}}

\* The top-level array a is the only field of the route's model.
ROnlyFieldIsA ==
    /\ rmodel # NoModel
    /\ Len(rmodel.fields) = 1
    /\ rmodel.fields[1][1] = "a"

C18_ArrayItemModel ==
    (rpc = "serving" /\ rmodel # NoModel) =>
        /\ RArraysAsClaimed(rmodel, None)
        /\ (rverdict # None /\ ROnlyFieldIsA) =>
               IF ROneObjectChild("a")
               THEN \* an item that is no object is turned down
                    (\E v \in RGivenA :
                         v.t = "list" /\ \E i \in DOMAIN v.items :
                                             v.items[i].t # "dict")
                        => rverdict = "422"
               ELSE \* any list passes, whatever it holds
                    rverdict = "Valid" <=>
                        \/ \E v \in RGivenA : v.t = "list"
                        \/ RGivenA = {} /\ ~rmodel.fields[1][2].required

C18_Witness ==
    /\ rpc = "serving"
    /\ ROnlyFieldIsA
    /\ ROneObjectChild("a")
    /\ "item" \in DOMAIN rmodel.fields[1][2].type
    /\ rverdict = "Valid"
    /\ RGivenA = {ListV(<<DictV(<<<<"x", StrV(<<"a">>)>>>>)>>)}

\* The three fields of the sender come from one document that loads.
SOneDocument ==
    /\ LoadEndpoints(config).exc = None
    /\ LoadEndpoints(config).val = endpoints
    /\ SchemasOf(config).exc = None
    /\ SchemasOf(config).val = schemas

\* C17: whatever the order of reloads, generate_body, endpoint_schema and
\* send_request_handler requests, the config, the endpoint list and the
\* schema catalog always derive from the same loaded document, and a reload
\* that fails leaves all three as they were.
C17_ReloadIsAtomic ==
    /\ []SOneDocument
    /\ [][sreply' = "Internal Server Error"
          => UNCHANGED <<config, endpoints, schemas>>]_vars

\* C21: _build_nested_model comes to an end on every finite flat field
\* list, those in which a field is its own parent or the parent of a field
\* above it and those in which two fields share a name included: the
\* build never runs out of stack.
C21_BuildTerminates ==
    rpc = "raised" => rerr # "RecursionError"

====
